---------------------------- MODULE Spec2Model ----------------------------
(***************************************************************************)
(* A model of the dynamic-filter application: the field registry, the      *)
(* condition validator (FilterValidator), the per-type evaluator and the   *)
(* filter runner (FilterEngine), the App component that wires them with    *)
(* its copy of the filter state in localStorage, and the FilterBuilder     *)
(* component with its debounced condition edits.                           *)
(*                                                                         *)
(* JavaScript values are tagged records; strings are sequences of          *)
(* one-character strings so that case folding, substring tests and number  *)
(* parsing are computed, not assumed.                                      *)
(***************************************************************************)
EXTENDS Integers, Sequences, FiniteSets, TLC

VARIABLES
    env,            \* the JavaScript engine: time zone and legacy date parsing
    cond,           \* the condition handed to validateCondition / evaluateCondition
    rec,            \* the record handed to evaluateCondition
    verdict,        \* what validateCondition returned for cond
    match,          \* what evaluateCondition returned for (rec, cond)
    afData,         \* applyFilters: the data argument
    afConditions,   \* applyFilters: the conditions argument
    afOperator,     \* applyFilters: the logicalOperator argument
    afResult,       \* applyFilters: what the call returned
    employeeData,   \* App: useState employeeData
    filterState,    \* App: useState filterState
    filteredData,   \* App: useMemo filteredData of the last render
    evaluated,      \* App: the conditions the last render passed to evaluateCondition
    fetching,       \* App: employeeApi.getEmployees() is in flight
    stored,         \* localStorage: the item under the key dynamicFilterState
    storageFull,    \* localStorage.setItem throws (quota exceeded, storage disabled)
    timers,         \* the timeouts FilterBuilder has set and that are still due
    timeoutRef,     \* FilterBuilder: debounceTimeoutRef.current (0 stands for null)
    mounted,        \* FilterBuilder is mounted
    created,        \* the number of ids uuidv4 has handed out
    reported,       \* the edits the rows reported since the last debounced call
    sinceEdit       \* the time since the last reported edit, up to the delay

validatorVars == <<cond, rec, verdict, match>>
applyVars == <<afData, afConditions, afOperator, afResult>>
appVars == <<employeeData, filterState, filteredData, evaluated, fetching>>
storeVars == <<stored, storageFull>>
builderVars == <<timers, timeoutRef, mounted, created, reported, sinceEdit>>
vars == <<env, validatorVars, applyVars, appVars, storeVars, builderVars>>

-----------------------------------------------------------------------------
(* JavaScript values *)

Undef == [t |-> "undefined"]
Null == [t |-> "null"]
Bool(b) == [t |-> "boolean", b |-> b]
Num(n) == [t |-> "number", k |-> "fin", n |-> n]
NaN == [t |-> "number", k |-> "nan", n |-> 0]
Infinity == [t |-> "number", k |-> "inf", n |-> 0]
Str(s) == [t |-> "string", s |-> s]
Arr(a) == [t |-> "array", a |-> a]
Obj(f) == [t |-> "object", f |-> f]

\* What a call returns when it does not return: an uncaught TypeError.
Throw == [t |-> "throw"]

IsNullish(v) == v.t \in {"undefined", "null"}

\* typeof v
TypeOf(v) ==
    CASE v.t = "undefined" -> "undefined"
      [] v.t = "boolean" -> "boolean"
      [] v.t = "number" -> "number"
      [] v.t = "string" -> "string"
      [] OTHER -> "object"

\* !!v
Truthy(v) ==
    CASE v.t \in {"undefined", "null"} -> FALSE
      [] v.t = "boolean" -> v.b
      [] v.t = "number" -> ~(v.k = "nan" \/ (v.k = "fin" /\ v.n = 0))
      [] v.t = "string" -> v.s # <<>>
      [] OTHER -> TRUE

\* v?.[p] for a property name p that is no built-in (length, toString, ...)
GetProp(v, p) ==
    IF v.t = "object" /\ p \in DOMAIN v.f THEN v.f[p] ELSE Undef

-----------------------------------------------------------------------------
(* Strings *)

Uppers == <<"A", "B", "C", "D", "E", "F", "G", "H", "I", "J", "K", "L", "M",
            "N", "O", "P", "Q", "R", "S", "T", "U", "V", "W", "X", "Y", "Z">>
Lowers == <<"a", "b", "c", "d", "e", "f", "g", "h", "i", "j", "k", "l", "m",
            "n", "o", "p", "q", "r", "s", "t", "u", "v", "w", "x", "y", "z">>
Digits == <<"0", "1", "2", "3", "4", "5", "6", "7", "8", "9">>

IsDigit(c) == \E i \in 1..10 : Digits[i] = c
DigitVal(c) == (CHOOSE i \in 1..10 : Digits[i] = c) - 1

ToLowerChar(c) ==
    IF \E i \in 1..26 : Uppers[i] = c
    THEN Lowers[CHOOSE i \in 1..26 : Uppers[i] = c]
    ELSE c

\* s.toLowerCase()
ToLowerCase(s) == [i \in 1..Len(s) |-> ToLowerChar(s[i])]

\* s.startsWith(p) from position k + 1
MatchesAt(s, p, k) ==
    /\ k + Len(p) <= Len(s)
    /\ \A i \in 1..Len(p) : s[k + i] = p[i]

StartsWith(s, p) == MatchesAt(s, p, 0)
EndsWith(s, p) == Len(p) <= Len(s) /\ MatchesAt(s, p, Len(s) - Len(p))
Includes(s, p) == \E k \in 0..Len(s) : MatchesAt(s, p, k)

RECURSIVE TrimStart(_)
TrimStart(s) == IF s # <<>> /\ Head(s) = " " THEN TrimStart(Tail(s)) ELSE s
RECURSIVE TrimEnd(_)
TrimEnd(s) ==
    IF s # <<>> /\ s[Len(s)] = " " THEN TrimEnd(SubSeq(s, 1, Len(s) - 1)) ELSE s
Trim(s) == TrimEnd(TrimStart(s))

RECURSIVE DigitsToNat(_)
DigitsToNat(s) ==
    IF s = <<>> THEN 0
    ELSE 10 * DigitsToNat(SubSeq(s, 1, Len(s) - 1)) + DigitVal(s[Len(s)])

AllDigits(s) == s # <<>> /\ \A i \in 1..Len(s) : IsDigit(s[i])

RECURSIVE NatToStr(_)
NatToStr(n) ==
    IF n < 10 THEN <<Digits[n + 1]>>
    ELSE NatToStr(n \div 10) \o <<Digits[(n % 10) + 1]>>

sInfinity == <<"I", "n", "f", "i", "n", "i", "t", "y">>
sNaN == <<"N", "a", "N">>
sTrue == <<"t", "r", "u", "e">>
sFalse == <<"f", "a", "l", "s", "e">>
sUndefined == <<"u", "n", "d", "e", "f", "i", "n", "e", "d">>
sNull == <<"n", "u", "l", "l">>
sObject == <<"[", "o", "b", "j", "e", "c", "t", " ", "O", "b", "j", "e", "c", "t", "]">>

\* Number(s) for a string s: StringToNumber on decimal integer literals
\* (no fraction, exponent or radix prefix occurs in the strings modelled)
StrToNumber(s) ==
    LET u == Trim(s) IN
    CASE u = <<>> -> Num(0)
      [] u = sInfinity -> Infinity
      [] AllDigits(u) -> Num(DigitsToNat(u))
      [] Len(u) > 1 /\ Head(u) = "-" /\ AllDigits(Tail(u)) -> Num(0 - DigitsToNat(Tail(u)))
      [] OTHER -> NaN

\* String(v) for a value that is no array
ScalarToString(v) ==
    CASE v.t = "undefined" -> sUndefined
      [] v.t = "null" -> sNull
      [] v.t = "boolean" -> IF v.b THEN sTrue ELSE sFalse
      [] v.t = "number" ->
            (CASE v.k = "nan" -> sNaN
               [] v.k = "inf" -> sInfinity
               [] OTHER -> IF v.n < 0 THEN <<"-">> \o NatToStr(0 - v.n) ELSE NatToStr(v.n))
      [] v.t = "string" -> v.s
      [] OTHER -> sObject

\* Array.prototype.join(","): null and undefined elements join as ""
RECURSIVE JoinArr(_)
JoinArr(a) ==
    LET one(x) == IF IsNullish(x) THEN <<>> ELSE ScalarToString(x) IN
    CASE a = <<>> -> <<>>
      [] Len(a) = 1 -> one(a[1])
      [] OTHER -> one(a[1]) \o <<",">> \o JoinArr(Tail(a))

\* String(v)
ToStr(v) == IF v.t = "array" THEN JoinArr(v.a) ELSE ScalarToString(v)

\* Number(v)
ToNumber(v) ==
    CASE v.t = "undefined" -> NaN
      [] v.t = "null" -> Num(0)
      [] v.t = "boolean" -> IF v.b THEN Num(1) ELSE Num(0)
      [] v.t = "number" -> v
      [] v.t = "string" -> StrToNumber(v.s)
      [] v.t = "array" -> StrToNumber(JoinArr(v.a))
      [] OTHER -> NaN

\* isNaN(x) for a number x
IsNaN(x) == x.k = "nan"

\* a < b on numbers (false when either is NaN); Infinity is +Infinity
NumLt(a, b) ==
    CASE a.k = "nan" \/ b.k = "nan" -> FALSE
      [] a.k = "inf" -> FALSE
      [] b.k = "inf" -> TRUE
      [] OTHER -> a.n < b.n
NumGt(a, b) == NumLt(b, a)
\* a === b on numbers
NumEq(a, b) == a.k # "nan" /\ b.k # "nan" /\ a.k = b.k /\ a.n = b.n
\* a <= b read as a < b
NumLeStrict(a, b) == NumLt(a, b)
\* a <= b on numbers
NumLe(a, b) == NumLt(a, b) \/ NumEq(a, b)
NumGe(a, b) == NumLe(b, a)

-----------------------------------------------------------------------------
(* Dates: an instant is a day number since 1970-01-01 and the milliseconds  *)
(* into that day (UTC); an Invalid Date has ok = FALSE.                     *)

MsPerMinute == 60 * 1000
MsPerDay == 24 * 60 * MsPerMinute

InvalidDate == [ok |-> FALSE, d |-> 0, ms |-> 0]

\* The instant `ms` milliseconds after the start of day d, normalised
MkInstant(d, ms) == [ok |-> TRUE, d |-> d + (ms \div MsPerDay), ms |-> ms % MsPerDay]

\* Days from 1970-01-01 to the civil date y-m-d (proleptic Gregorian)
DaysFromCivil(y, m, d) ==
    LET yy == IF m <= 2 THEN y - 1 ELSE y
        era == yy \div 400
        yoe == yy - era * 400
        mp == IF m > 2 THEN m - 3 ELSE m + 9
        doy == ((153 * mp + 2) \div 5) + d - 1
        doe == yoe * 365 + (yoe \div 4) - (yoe \div 100) + doy
    IN era * 146097 + doe - 719468

IsLeap(y) == (y % 4 = 0 /\ y % 100 # 0) \/ y % 400 = 0
DaysInMonth(y, m) ==
    CASE m = 2 -> IF IsLeap(y) THEN 29 ELSE 28
      [] m \in {4, 6, 9, 11} -> 30
      [] OTHER -> 31

\* s has the shape YYYY-MM-DD
IsIsoDate(s) ==
    /\ Len(s) = 10
    /\ \A i \in {1, 2, 3, 4, 6, 7, 9, 10} : IsDigit(s[i])
    /\ s[5] = "-" /\ s[8] = "-"

\* s has the shape YYYY-MM-DDTHH:MM
IsIsoDateTime(s) ==
    /\ Len(s) = 16
    /\ IsIsoDate(SubSeq(s, 1, 10))
    /\ s[11] = "T" /\ s[14] = ":"
    /\ \A i \in {12, 13, 15, 16} : IsDigit(s[i])

\* Date.parse(s) in engine e. The ISO forms are the standard's: a date alone
\* is UTC midnight, a date with a time and no offset is local time. Any other
\* string is parsed by implementation-defined rules: V8 reads a bare month
\* number as the first of that month of 2001 (local) and a day past the end
\* of the month as rolling over; a strict engine gives Invalid Date for both.
\* A string with no digit at all is an Invalid Date everywhere.
DateParse(s, e) ==
    IF IsIsoDate(s) \/ IsIsoDateTime(s)
    THEN LET y == DigitsToNat(SubSeq(s, 1, 4))
             m == DigitsToNat(SubSeq(s, 6, 7))
             d == DigitsToNat(SubSeq(s, 9, 10))
             hh == IF Len(s) = 16 THEN DigitsToNat(SubSeq(s, 12, 13)) ELSE 0
             mi == IF Len(s) = 16 THEN DigitsToNat(SubSeq(s, 15, 16)) ELSE 0
             shift == IF Len(s) = 16 THEN e.tz ELSE 0
         IN  IF m < 1 \/ m > 12 \/ d < 1 \/ d > 31 \/ hh > 23 \/ mi > 59
             THEN InvalidDate
             ELSE IF d > DaysInMonth(y, m) /\ ~e.legacyDate
             THEN InvalidDate
             ELSE MkInstant(DaysFromCivil(y, m, d), (hh * 60 + mi - shift) * MsPerMinute)
    ELSE IF e.legacyDate /\ AllDigits(Trim(s)) /\ DigitsToNat(Trim(s)) \in 1..12
    THEN MkInstant(DaysFromCivil(2001, DigitsToNat(Trim(s)), 1), (0 - e.tz) * MsPerMinute)
    ELSE InvalidDate

\* new Date(v) in engine e
NewDate(v, e) ==
    CASE v.t = "string" -> DateParse(v.s, e)
      [] v.t \in {"array", "object"} -> DateParse(ToStr(v), e)
      [] OTHER ->
            LET n == ToNumber(v) IN
            IF n.k = "fin" THEN MkInstant(0, n.n) ELSE InvalidDate

\* isNaN(date.getTime())
DateIsNaN(x) == ~x.ok

\* a < b on Date objects (false when either is invalid)
DateLt(a, b) == a.ok /\ b.ok /\ (a.d < b.d \/ (a.d = b.d /\ a.ms < b.ms))
DateGt(a, b) == DateLt(b, a)
DateLe(a, b) == a.ok /\ b.ok /\ ~DateLt(b, a)
DateGe(a, b) == DateLe(b, a)

\* date.toDateString(): the calendar day in local time, or "Invalid Date"
ToDateString(x, e) ==
    IF x.ok
    THEN [ok |-> TRUE, day |-> MkInstant(x.d, x.ms + e.tz * MsPerMinute).d]
    ELSE [ok |-> FALSE, day |-> 0]

-----------------------------------------------------------------------------
(* The field registry (data/fieldDefinitions.ts). label and options are    *)
(* read only by the UI; nestedKey "" stands for an absent nestedKey.       *)

FieldDef(key, type, operators, nestedKey) ==
    [key |-> key, type |-> type, operators |-> operators, nestedKey |-> nestedKey]

NumberOperators ==
    <<"equals", "greaterThan", "lessThan", "greaterThanOrEqual", "lessThanOrEqual", "between">>
DateOperators == <<"equals", "before", "after", "between">>

fieldDefinitions == <<
    FieldDef("name", "text",
             <<"equals", "contains", "startsWith", "endsWith", "notContains", "regex">>, ""),
    FieldDef("email", "text", <<"equals", "contains", "endsWith", "regex">>, ""),
    FieldDef("department", "singleSelect", <<"is", "isNot">>, ""),
    FieldDef("role", "text", <<"equals", "contains">>, ""),
    FieldDef("salary", "amount", <<"equals", "between", "greaterThan", "lessThan">>, ""),
    FieldDef("joinDate", "date", DateOperators, ""),
    FieldDef("isActive", "boolean", <<"is">>, ""),
    FieldDef("skills", "multiSelect", <<"in", "notIn", "containsAll">>, ""),
    FieldDef("address.city", "text", <<"equals", "contains">>, "address.city"),
    FieldDef("address.state", "singleSelect", <<"is", "isNot">>, ""),
    FieldDef("projects", "number", NumberOperators, ""),
    FieldDef("lastReview", "date", DateOperators, ""),
    FieldDef("performanceRating", "number", NumberOperators, "") >>

FieldKeys == {fieldDefinitions[i].key : i \in DOMAIN fieldDefinitions}

\* fieldDefinitions.find(f => f.key === key): the first match; only used
\* where some definition has the key
FindFieldDef(key) ==
    fieldDefinitions[CHOOSE i \in DOMAIN fieldDefinitions :
        /\ fieldDefinitions[i].key = key
        /\ \A j \in 1..(i - 1) : fieldDefinitions[j].key # key]

\* operators.includes(op)
SeqIncludes(seq, x) == \E i \in DOMAIN seq : seq[i] = x

\* path.split('.') for the paths of the registry; any other key modelled
\* holds no dot
SplitPath(path) ==
    CASE path = "address.city" -> <<"address", "city">>
      [] path = "address.state" -> <<"address", "state">>
      [] OTHER -> <<path>>

\* getNestedValue(obj, path): reduce with current?.[prop]
RECURSIVE ReducePath(_, _)
ReducePath(current, props) ==
    IF props = <<>> THEN current
    ELSE ReducePath(GetProp(current, Head(props)), Tail(props))

\* getNestedValue reading the whole path as one property name
getNestedValueFlat(obj, path) == GetProp(obj, path)

getNestedValue(obj, path) == ReducePath(obj, SplitPath(path))

-----------------------------------------------------------------------------
(* FilterValidator (utils/filterValidator.ts) *)

\* validateCondition returns null or an object with one key and a message
NoError == [tag |-> "null", msg |-> ""]
FieldError(msg) == [tag |-> "field", msg |-> msg]
OperatorError(msg) == [tag |-> "operator", msg |-> msg]
ValueError(msg) == [tag |-> "value", msg |-> msg]

\* The presence check that opens validateValue
validatePresence(fieldType, operator, value) ==
    IF ~Truthy(value) /\ operator # "is"
    THEN IF fieldType = "multiSelect"
         THEN IF value.t # "array" \/ Len(value.a) = 0
              THEN ValueError("Please select at least one value")
              ELSE NoError
         ELSE IF fieldType # "boolean"
              THEN ValueError("Value is required")
              ELSE NoError
    ELSE NoError

\* case 'number' / 'amount' of validateValue
validateNumberValue(operator, value) ==
    IF operator = "between"
    THEN IF ~Truthy(value) \/ TypeOf(value) # "object"
         THEN ValueError("Range values are required")
         ELSE LET min == GetProp(value, "min")
                  max == GetProp(value, "max")
              IN  IF min = Str(<<>>) \/ IsNullish(min)
                  THEN ValueError("Minimum value is required")
                  ELSE IF max = Str(<<>>) \/ IsNullish(max)
                  THEN ValueError("Maximum value is required")
                  ELSE IF IsNaN(ToNumber(min))
                  THEN ValueError("Minimum value must be a valid number")
                  ELSE IF IsNaN(ToNumber(max))
                  THEN ValueError("Maximum value must be a valid number")
                  ELSE IF NumGt(ToNumber(min), ToNumber(max))
                  THEN ValueError("Minimum value cannot be greater than maximum value")
                  ELSE NoError
    ELSE IF value = Str(<<>>) \/ IsNullish(value)
         THEN ValueError("Number value is required")
         ELSE IF IsNaN(ToNumber(value))
         THEN ValueError("Value must be a valid number")
         ELSE NoError

\* case 'date' of validateValue
validateDateValue(operator, value, e) ==
    IF operator = "between"
    THEN IF ~Truthy(value) \/ TypeOf(value) # "object"
         THEN ValueError("Date range is required")
         ELSE LET from == GetProp(value, "from")
                  to == GetProp(value, "to")
              IN  IF ~Truthy(from) \/ from = Str(<<>>)
                  THEN ValueError("Start date is required")
                  ELSE IF ~Truthy(to) \/ to = Str(<<>>)
                  THEN ValueError("End date is required")
                  ELSE IF DateIsNaN(NewDate(from, e))
                  THEN ValueError("Start date is invalid")
                  ELSE IF DateIsNaN(NewDate(to, e))
                  THEN ValueError("End date is invalid")
                  ELSE IF DateGt(NewDate(from, e), NewDate(to, e))
                  THEN ValueError("Start date cannot be after end date")
                  ELSE NoError
    ELSE IF ~Truthy(value) \/ value = Str(<<>>)
         THEN ValueError("Date is required")
         ELSE IF DateIsNaN(NewDate(value, e))
         THEN ValueError("Invalid date")
         ELSE NoError

\* The switch (fieldType) of validateValue
validateByType(fieldType, operator, value, e) ==
    CASE fieldType = "text" ->
            IF Truthy(value) /\ TypeOf(value) # "string"
            THEN ValueError("Text value must be a string")
            ELSE NoError
      [] fieldType \in {"number", "amount"} -> validateNumberValue(operator, value)
      [] fieldType = "date" -> validateDateValue(operator, value, e)
      [] fieldType = "singleSelect" ->
            IF ~Truthy(value) \/ value = Str(<<>>)
            THEN ValueError("Please select an option")
            ELSE NoError
      [] fieldType = "multiSelect" ->
            IF value.t # "array" \/ Len(value.a) = 0
            THEN ValueError("Please select at least one option")
            ELSE NoError
      [] fieldType = "boolean" ->
            IF IsNullish(value) THEN ValueError("Please select a value") ELSE NoError
      [] OTHER -> NoError

\* validateValue asking for a truthy value whatever the field type and operator
validateValueTruthyOnly(fieldType, operator, value, e) ==
    IF ~Truthy(value)
    THEN ValueError("Value is required")
    ELSE validateByType(fieldType, operator, value, e)

validateValue(fieldType, operator, value, e) ==
    IF validatePresence(fieldType, operator, value) # NoError
    THEN validatePresence(fieldType, operator, value)
    ELSE validateByType(fieldType, operator, value, e)

validateCondition(condition, e) ==
    IF condition.field = ""
    THEN FieldError("Please select a field")
    ELSE IF condition.operator = ""
    THEN OperatorError("Please select an operator")
    ELSE IF condition.field \notin FieldKeys
    THEN FieldError("Invalid field selected")
    ELSE IF ~SeqIncludes(FindFieldDef(condition.field).operators, condition.operator)
    THEN OperatorError("Invalid operator for this field type")
    ELSE validateValue(condition.fieldType, condition.operator, condition.value, e)

-----------------------------------------------------------------------------
(* Regular expressions: the fragment of the pattern syntax made of literal *)
(* characters, groups "(" ")" and character classes "[" "]". The strings   *)
(* modelled hold no other metacharacter.                                   *)

\* new RegExp(p) throws a SyntaxError: an unbalanced group or an unterminated class
RECURSIVE RegExpThrows(_, _, _)
RegExpThrows(p, depth, inClass) ==
    IF p = <<>> THEN depth # 0 \/ inClass
    ELSE IF inClass THEN RegExpThrows(Tail(p), depth, Head(p) # "]")
    ELSE IF Head(p) = "[" THEN RegExpThrows(Tail(p), depth, TRUE)
    ELSE IF Head(p) = "(" THEN RegExpThrows(Tail(p), depth + 1, FALSE)
    ELSE IF Head(p) = ")" THEN depth = 0 \/ RegExpThrows(Tail(p), depth - 1, FALSE)
    ELSE RegExpThrows(Tail(p), depth, FALSE)

\* The pattern as a sequence of character sets, one per character it consumes
RECURSIVE RegExpItems(_, _, _)
RegExpItems(p, inClass, class) ==
    IF p = <<>> THEN <<>>
    ELSE IF inClass
    THEN IF Head(p) = "]"
         THEN <<class>> \o RegExpItems(Tail(p), FALSE, {})
         ELSE RegExpItems(Tail(p), TRUE, class \cup {Head(p)})
    ELSE IF Head(p) = "[" THEN RegExpItems(Tail(p), TRUE, {})
    ELSE IF Head(p) \in {"(", ")"} THEN RegExpItems(Tail(p), FALSE, {})
    ELSE <<{Head(p)}>> \o RegExpItems(Tail(p), FALSE, {})

\* new RegExp(p, 'i').test(s) for a pattern that compiles
RegExpTest(p, s) ==
    LET items == RegExpItems(p, FALSE, {})
        fold(cs) == {ToLowerChar(c) : c \in cs}
    IN  \E k \in 0..Len(s) :
            /\ k + Len(items) <= Len(s)
            /\ \A i \in 1..Len(items) : ToLowerChar(s[k + i]) \in fold(items[i])

-----------------------------------------------------------------------------
(* FilterEngine (utils/filterEngine.ts). An evaluator returns Bool(TRUE),  *)
(* Bool(FALSE) or Throw.                                                   *)

\* evaluateTextFilter with NotContains testing the start of the string only
evaluateTextFilterNotStartsWith(value, operator, filterValue) ==
    IF IsNullish(value) THEN Bool(FALSE)
    ELSE LET strValue == ToLowerCase(ToStr(value))
             strFilter == ToLowerCase(ToStr(filterValue))
         IN  CASE operator = "equals" -> Bool(strValue = strFilter)
               [] operator = "contains" -> Bool(Includes(strValue, strFilter))
               [] operator = "startsWith" -> Bool(StartsWith(strValue, strFilter))
               [] operator = "endsWith" -> Bool(EndsWith(strValue, strFilter))
               [] operator = "notContains" -> Bool(~StartsWith(strValue, strFilter))
               [] operator = "regex" ->
                     IF RegExpThrows(strFilter, 0, FALSE)
                     THEN Bool(FALSE)
                     ELSE Bool(RegExpTest(strFilter, ToStr(value)))
               [] OTHER -> Bool(TRUE)

\* evaluateTextFilter without the try/catch around new RegExp
evaluateTextFilterUncaught(value, operator, filterValue) ==
    IF IsNullish(value) THEN Bool(FALSE)
    ELSE LET strValue == ToLowerCase(ToStr(value))
             strFilter == ToLowerCase(ToStr(filterValue))
         IN  CASE operator = "equals" -> Bool(strValue = strFilter)
               [] operator = "contains" -> Bool(Includes(strValue, strFilter))
               [] operator = "startsWith" -> Bool(StartsWith(strValue, strFilter))
               [] operator = "endsWith" -> Bool(EndsWith(strValue, strFilter))
               [] operator = "notContains" -> Bool(~Includes(strValue, strFilter))
               [] operator = "regex" ->
                     IF RegExpThrows(strFilter, 0, FALSE)
                     THEN Throw
                     ELSE Bool(RegExpTest(strFilter, ToStr(value)))
               [] OTHER -> Bool(TRUE)

evaluateTextFilter(value, operator, filterValue) ==
    IF IsNullish(value) THEN Bool(FALSE)
    ELSE LET strValue == ToLowerCase(ToStr(value))
             strFilter == ToLowerCase(ToStr(filterValue))
         IN  CASE operator = "equals" -> Bool(strValue = strFilter)
               [] operator = "contains" -> Bool(Includes(strValue, strFilter))
               [] operator = "startsWith" -> Bool(StartsWith(strValue, strFilter))
               [] operator = "endsWith" -> Bool(EndsWith(strValue, strFilter))
               [] operator = "notContains" -> Bool(~Includes(strValue, strFilter))
               [] operator = "regex" ->
                     IF RegExpThrows(strFilter, 0, FALSE)
                     THEN Bool(FALSE)
                     ELSE Bool(RegExpTest(strFilter, ToStr(value)))
               [] OTHER -> Bool(TRUE)

evaluateNumberFilter(value, operator, filterValue) ==
    IF IsNullish(value) THEN Bool(FALSE)
    ELSE IF IsNaN(ToNumber(value)) THEN Bool(FALSE)
    ELSE LET numValue == ToNumber(value) IN
         CASE operator = "equals" -> Bool(NumEq(numValue, ToNumber(filterValue)))
           [] operator = "greaterThan" -> Bool(NumGt(numValue, ToNumber(filterValue)))
           [] operator = "lessThan" -> Bool(NumLt(numValue, ToNumber(filterValue)))
           [] operator = "greaterThanOrEqual" -> Bool(NumGe(numValue, ToNumber(filterValue)))
           [] operator = "lessThanOrEqual" -> Bool(NumLe(numValue, ToNumber(filterValue)))
           [] operator = "between" ->
                 \* const { min, max } = filterValue
                 IF IsNullish(filterValue) THEN Throw
                 ELSE Bool(/\ NumGe(numValue, ToNumber(GetProp(filterValue, "min")))
                           /\ NumLe(numValue, ToNumber(GetProp(filterValue, "max"))))
           [] OTHER -> Bool(TRUE)

evaluateDateFilter(value, operator, filterValue, e) ==
    IF ~Truthy(value) THEN Bool(FALSE)
    ELSE IF DateIsNaN(NewDate(value, e)) THEN Bool(FALSE)
    ELSE LET date == NewDate(value, e) IN
         CASE operator = "equals" ->
                 Bool(ToDateString(date, e) = ToDateString(NewDate(filterValue, e), e))
           [] operator = "before" -> Bool(DateLt(date, NewDate(filterValue, e)))
           [] operator = "after" -> Bool(DateGt(date, NewDate(filterValue, e)))
           [] operator = "between" ->
                 \* filterValue.from
                 IF IsNullish(filterValue) THEN Throw
                 ELSE Bool(/\ DateGe(date, NewDate(GetProp(filterValue, "from"), e))
                           /\ DateLe(date, NewDate(GetProp(filterValue, "to"), e)))
           [] OTHER -> Bool(TRUE)

evaluateAmountFilter(value, operator, filterValue) ==
    evaluateNumberFilter(value, operator, filterValue)

\* evaluateSelectFilter with the test for a missing record value inverted
evaluateSelectFilterAbsentIs(value, operator, filterValue) ==
    IF IsNullish(value) THEN Bool(operator = "is")
    ELSE LET matches == ToStr(value) = ToStr(filterValue) IN
         IF operator = "is" THEN Bool(matches) ELSE Bool(~matches)

evaluateSelectFilter(value, operator, filterValue) ==
    IF IsNullish(value) THEN Bool(operator = "isNot")
    ELSE LET matches == ToStr(value) = ToStr(filterValue) IN
         IF operator = "is" THEN Bool(matches) ELSE Bool(~matches)

\* evaluateMultiSelectFilter without the coercion of a scalar record value to
\* an array: value.some is then not a function
evaluateMultiSelectFilterNoCoercion(value, operator, filterValue) ==
    IF value.t # "array" /\ ~Truthy(value) THEN Bool(operator = "notIn")
    ELSE IF value.t # "array" THEN Throw
    ELSE LET filterArray == IF filterValue.t = "array" THEN filterValue.a
                            ELSE <<filterValue>>
             anyIn == \E i \in DOMAIN value.a : SeqIncludes(filterArray, value.a[i])
         IN  CASE operator = "in" -> Bool(anyIn)
               [] operator = "notIn" -> Bool(~anyIn)
               [] operator = "containsAll" ->
                     Bool(\A j \in DOMAIN filterArray : SeqIncludes(value.a, filterArray[j]))
               [] OTHER -> Bool(TRUE)

evaluateMultiSelectFilter(value, operator, filterValue) ==
    IF value.t # "array" /\ ~Truthy(value) THEN Bool(operator = "notIn")
    ELSE LET val == IF value.t = "array" THEN value.a ELSE <<value>>
             filterArray == IF filterValue.t = "array" THEN filterValue.a
                            ELSE <<filterValue>>
             anyIn == \E i \in DOMAIN val : SeqIncludes(filterArray, val[i])
         IN  CASE operator = "in" -> Bool(anyIn)
               [] operator = "notIn" -> Bool(~anyIn)
               [] operator = "containsAll" ->
                     Bool(\A j \in DOMAIN filterArray : SeqIncludes(val, filterArray[j]))
               [] OTHER -> Bool(TRUE)

evaluateBooleanFilter(value, operator, filterValue) ==
    LET boolValue == Truthy(value)
        boolFilter == ToLowerCase(ToStr(filterValue)) = sTrue
    IN  Bool(boolValue = boolFilter)

\* The record value evaluateCondition reads: condition.nestedKey || condition.field
fieldValue(record, condition) ==
    getNestedValue(record,
        IF condition.nestedKey # "" THEN condition.nestedKey ELSE condition.field)

evaluateCondition(record, condition, e) ==
    LET value == fieldValue(record, condition) IN
    CASE condition.fieldType = "text" ->
            evaluateTextFilter(value, condition.operator, condition.value)
      [] condition.fieldType = "number" ->
            evaluateNumberFilter(value, condition.operator, condition.value)
      [] condition.fieldType = "date" ->
            evaluateDateFilter(value, condition.operator, condition.value, e)
      [] condition.fieldType = "amount" ->
            evaluateAmountFilter(value, condition.operator, condition.value)
      [] condition.fieldType = "singleSelect" ->
            evaluateSelectFilter(value, condition.operator, condition.value)
      [] condition.fieldType = "multiSelect" ->
            evaluateMultiSelectFilter(value, condition.operator, condition.value)
      [] condition.fieldType = "boolean" ->
            evaluateBooleanFilter(value, condition.operator, condition.value)
      [] OTHER -> Bool(TRUE)

\* evaluateCondition returns from a default branch: that of its own switch
\* (a field type it does not know) or that of the switch of the evaluator of
\* the condition's field type (an operator the evaluator does not know)
defaultBranch(record, condition, e) ==
    LET value == fieldValue(record, condition)
        numeric == ~IsNullish(value) /\ ~IsNaN(ToNumber(value))
    IN  CASE condition.fieldType = "text" ->
                /\ ~IsNullish(value)
                /\ condition.operator \notin
                     {"equals", "contains", "startsWith", "endsWith", "notContains",
                      "regex"}
          [] condition.fieldType \in {"number", "amount"} ->
                /\ numeric
                /\ condition.operator \notin
                     {"equals", "greaterThan", "lessThan", "greaterThanOrEqual",
                      "lessThanOrEqual", "between"}
          [] condition.fieldType = "date" ->
                /\ Truthy(value) /\ ~DateIsNaN(NewDate(value, e))
                /\ condition.operator \notin {"equals", "before", "after", "between"}
          [] condition.fieldType = "multiSelect" ->
                /\ value.t = "array" \/ Truthy(value)
                /\ condition.operator \notin {"in", "notIn", "containsAll"}
          [] condition.fieldType \in {"singleSelect", "boolean"} -> FALSE
          [] OTHER -> TRUE

\* What applyFilters returns when no evaluation throws
Returned(records) == [t |-> "returned", v |-> records]

\* Array.prototype.every after one call of its callback: an exception ends
\* the call, false ends the iteration, true goes on with the rest
everyNext(r, rest) ==
    IF r = Throw THEN Throw ELSE IF ~r.b THEN Bool(FALSE) ELSE rest

\* conditions.every(condition => this.evaluateCondition(record, condition))
RECURSIVE every(_, _, _)
every(conditions, record, e) ==
    IF conditions = <<>> THEN Bool(TRUE)
    ELSE everyNext(evaluateCondition(record, Head(conditions), e),
                   every(Tail(conditions), record, e))

\* someNext taking a false result for a match
someNextInverted(r, rest) ==
    IF r = Throw THEN Throw ELSE IF ~r.b THEN Bool(TRUE) ELSE rest

\* Array.prototype.some after one call of its callback: an exception ends
\* the call, true ends the iteration, false goes on with the rest
someNext(r, rest) ==
    IF r = Throw THEN Throw ELSE IF r.b THEN Bool(TRUE) ELSE rest

\* conditions.some(condition => this.evaluateCondition(record, condition))
RECURSIVE some(_, _, _)
some(conditions, record, e) ==
    IF conditions = <<>> THEN Bool(FALSE)
    ELSE someNext(evaluateCondition(record, Head(conditions), e),
                  some(Tail(conditions), record, e))

\* keepRecord with the branches of the logical operator exchanged
keepRecordSwapped(record, conditions, logicalOperator, e) ==
    IF logicalOperator = "AND"
    THEN some(conditions, record, e)
    ELSE every(conditions, record, e)

\* The callback of data.filter in applyFilters
keepRecord(record, conditions, logicalOperator, e) ==
    IF logicalOperator = "AND"
    THEN every(conditions, record, e)
    ELSE some(conditions, record, e)

\* filterNext putting a kept record behind the records kept after it
filterNextAppends(record, keep, rest) ==
    IF keep = Throw \/ rest = Throw THEN Throw
    ELSE IF keep.b THEN Returned(rest.v \o <<record>>)
    ELSE rest

\* Array.prototype.filter after one call of its callback: an exception ends
\* the call, and the record is kept when the callback returned true
filterNext(record, keep, rest) ==
    IF keep = Throw \/ rest = Throw THEN Throw
    ELSE IF keep.b THEN Returned(<<record>> \o rest.v)
    ELSE rest

\* data.filter(record => ...)
RECURSIVE filterData(_, _, _, _)
filterData(data, conditions, logicalOperator, e) ==
    IF data = <<>> THEN Returned(<<>>)
    ELSE filterNext(Head(data),
                    keepRecord(Head(data), conditions, logicalOperator, e),
                    filterData(Tail(data), conditions, logicalOperator, e))

\* applyFilters without its early return for an empty condition list
applyFiltersAlwaysFilters(data, conditions, logicalOperator, e) ==
    filterData(data, conditions, logicalOperator, e)

applyFilters(data, conditions, logicalOperator, e) ==
    IF Len(conditions) = 0
    THEN Returned(data)
    ELSE filterData(data, conditions, logicalOperator, e)

\* The conditions every / some hand to evaluateCondition from c on, given
\* what evaluateCondition returned for c
callsNext(c, r, logicalOperator, rest) ==
    {c} \cup (IF r # Throw /\ r.b = (logicalOperator = "AND") THEN rest ELSE {})

\* The conditions a call of every / some hands to evaluateCondition for one record
RECURSIVE calls(_, _, _, _)
calls(conditions, record, logicalOperator, e) ==
    IF conditions = <<>> THEN {}
    ELSE callsNext(Head(conditions),
                   evaluateCondition(record, Head(conditions), e),
                   logicalOperator,
                   calls(Tail(conditions), record, logicalOperator, e))

\* The conditions a call of applyFilters hands to evaluateCondition
applyFiltersCalls(data, conditions, logicalOperator, e) ==
    IF Len(conditions) = 0 THEN {}
    ELSE UNION {calls(conditions, data[i], logicalOperator, e) : i \in DOMAIN data}

-----------------------------------------------------------------------------
(* App (App.tsx) *)

\* filterState.conditions.filter(condition => !FilterValidator.validateCondition(condition))
validConditions(conditions, e) ==
    SelectSeq(conditions, LAMBDA c : validateCondition(c, e) = NoError)

\* App handing every condition of the filter state to applyFilters
appliedConditionsUnvalidated(fs, e) == fs.conditions

\* What App hands to FilterEngine.applyFilters as its conditions
appliedConditions(fs, e) == validConditions(fs.conditions, e)

\* The value is an object holding a conditions list, as FilterState declares
IsFilterState(fs) == "conditions" \in DOMAIN fs

\* useMemo filteredData; filterState.conditions.filter throws a TypeError
\* when filterState is null or has no conditions list
computeFilteredData(data, fs, e) ==
    IF ~IsFilterState(fs) THEN Throw
    ELSE applyFilters(data, appliedConditions(fs, e), fs.logicalOperator, e)

\* The conditions the render hands to evaluateCondition
renderCalls(data, fs, e) ==
    IF ~IsFilterState(fs) THEN {}
    ELSE applyFiltersCalls(data, appliedConditions(fs, e), fs.logicalOperator, e)

-----------------------------------------------------------------------------
(* JSON.stringify and JSON.parse. A JSON text is modelled by the JSON      *)
(* value it denotes: what stringify writes and parse reads back is equal   *)
(* as text exactly when it is equal as a JSON value. undefined, NaN and    *)
(* Infinity have no JSON value.                                            *)

JNull == [j |-> "null"]
JBool(b) == [j |-> "boolean", b |-> b]
JNum(n) == [j |-> "number", n |-> n]
JStr(s) == [j |-> "string", s |-> s]
JArr(a) == [j |-> "array", a |-> a]
JObj(f) == [j |-> "object", f |-> f]

\* JSON.stringify(v) for a value it gives a text for: a property holding
\* undefined is left out, undefined in an array, NaN and Infinity become null
RECURSIVE JsonOfValue(_)
JsonOfValue(v) ==
    CASE v.t = "null" -> JNull
      [] v.t = "boolean" -> JBool(v.b)
      [] v.t = "number" -> IF v.k = "fin" THEN JNum(v.n) ELSE JNull
      [] v.t = "string" -> JStr(v.s)
      [] v.t = "array" ->
            JArr([i \in DOMAIN v.a |->
                     IF v.a[i] = Undef THEN JNull ELSE JsonOfValue(v.a[i])])
      [] v.t = "object" ->
            JObj([k \in {x \in DOMAIN v.f : v.f[x] # Undef} |-> JsonOfValue(v.f[k])])

\* JSON.parse of the text of a JSON value
RECURSIVE ValueOfJson(_)
ValueOfJson(t) ==
    CASE t.j = "null" -> Null
      [] t.j = "boolean" -> Bool(t.b)
      [] t.j = "number" -> Num(t.n)
      [] t.j = "string" -> Str(t.s)
      [] t.j = "array" -> Arr([i \in DOMAIN t.a |-> ValueOfJson(t.a[i])])
      [] t.j = "object" -> Obj([k \in DOMAIN t.f |-> ValueOfJson(t.f[k])])

\* JsonKeys leaving nestedKey out of every condition
JsonKeysWithoutNestedKey(c) ==
    {"id", "field", "fieldType", "operator"}
        \cup (IF c.value # Undef THEN {"value"} ELSE {})

\* The keys JSON.stringify writes for a condition: value and nestedKey are
\* left out when they are undefined
JsonKeys(c) ==
    {"id", "field", "fieldType", "operator"}
        \cup (IF c.value # Undef THEN {"value"} ELSE {})
        \cup (IF c.nestedKey # "" THEN {"nestedKey"} ELSE {})

JsonOfCondition(c) ==
    JObj([k \in JsonKeys(c) |->
             CASE k = "id" -> JStr(c.id)
               [] k = "field" -> JStr(c.field)
               [] k = "fieldType" -> JStr(c.fieldType)
               [] k = "operator" -> JStr(c.operator)
               [] k = "value" -> JsonOfValue(c.value)
               [] k = "nestedKey" -> JStr(c.nestedKey)])

\* JSON.stringify(filterState)
JsonOfFilterState(fs) ==
    JObj([conditions |-> JArr([i \in DOMAIN fs.conditions |->
                                  JsonOfCondition(fs.conditions[i])]),
          logicalOperator |-> JStr(fs.logicalOperator)])

\* An absent property reads as undefined
ConditionOfJson(o) ==
    [id |-> o.f.id.s, field |-> o.f.field.s, fieldType |-> o.f.fieldType.s,
     operator |-> o.f.operator.s,
     value |-> IF "value" \in DOMAIN o.f THEN ValueOfJson(o.f.value) ELSE Undef,
     nestedKey |-> IF "nestedKey" \in DOMAIN o.f THEN o.f.nestedKey.s ELSE ""]

\* The JSON value has the keys of a FilterState
IsFilterStateJson(t) ==
    /\ t.j = "object"
    /\ {"conditions", "logicalOperator"} \subseteq DOMAIN t.f
    /\ t.f.conditions.j = "array"
    /\ t.f.logicalOperator.j = "string"

\* JSON.parse(stored), read as the filter state it is used as
FilterStateOfJson(t) ==
    IF IsFilterStateJson(t)
    THEN [conditions |-> [i \in DOMAIN t.f.conditions.a |->
                             ConditionOfJson(t.f.conditions.a[i])],
          logicalOperator |-> t.f.logicalOperator.s]
    ELSE ValueOfJson(t)

\* What localStorage holds under the key dynamicFilterState: nothing, the
\* empty text, a text JSON.parse rejects, or the text of a JSON value
NoItem == [k |-> "none"]
EmptyText == [k |-> "empty"]
NotJson == [k |-> "text"]
Json(tree) == [k |-> "json", tree |-> tree]

EmptyFilterState == [conditions |-> <<>>, logicalOperator |-> "AND"]

\* The initialiser of useState filterState
initialFilterState(item) ==
    IF item \in {NoItem, EmptyText} THEN EmptyFilterState
    ELSE IF item = NotJson THEN EmptyFilterState
    ELSE FilterStateOfJson(item.tree)

\* The effect that saves the filter state: setItem, its exception caught
savedItem(item, fs, full) ==
    IF full THEN item ELSE Json(JsonOfFilterState(fs))

-----------------------------------------------------------------------------
(* The inputs explored *)

sJo == <<"J", "o">>
sO == <<"o">>
sHR == <<"H", "R">>
sGo == <<"G", "o">>
sNYC == <<"N", "Y", "C">>
sNY == <<"N", "Y">>
sFive == <<"5">>
sSpace == <<" ">>
sOpenParen == <<"(">>
sMail == <<"j", "@", "x">>
sDev == <<"D", "e", "v">>
sJan15 == <<"2", "0", "2", "4", "-", "0", "1", "-", "1", "5">>
sFeb01 == <<"2", "0", "2", "4", "-", "0", "2", "-", "0", "1">>
sJan15Ten == sJan15 \o <<"T", "1", "0", ":", "0", "0">>

\* Engines: minutes east of UTC, and whether non-ISO date strings parse
Engines == {[tz |-> 0 - 300, legacyDate |-> TRUE], [tz |-> 60, legacyDate |-> FALSE]}

Condition(id, field, fieldType, operator, value, nestedKey) ==
    [id |-> id, field |-> field, fieldType |-> fieldType, operator |-> operator,
     value |-> value, nestedKey |-> nestedKey]

FieldTypes == {"text", "number", "date", "amount", "singleSelect", "multiSelect", "boolean"}

Operators ==
    {"equals", "contains", "startsWith", "endsWith", "notContains", "regex",
     "greaterThan", "lessThan", "greaterThanOrEqual", "lessThanOrEqual", "between",
     "before", "after", "is", "isNot", "in", "notIn", "containsAll"}

\* The operators the type declarations of types/index.ts give each field type
TypeOperators(type) ==
    CASE type = "text" ->
            {"equals", "contains", "startsWith", "endsWith", "notContains", "regex"}
      [] type = "number" ->
            {"equals", "greaterThan", "lessThan", "greaterThanOrEqual", "lessThanOrEqual",
             "between"}
      [] type = "date" -> {"equals", "before", "after", "between"}
      [] type = "amount" -> {"equals", "between", "greaterThan", "lessThan"}
      [] type = "singleSelect" -> {"is", "isNot"}
      [] type = "multiSelect" -> {"in", "notIn", "containsAll"}
      [] type = "boolean" -> {"is"}

\* condition.field: unselected, unknown to the registry, or one of its keys
CondFields ==
    {"", "bogus", "name", "salary", "joinDate", "isActive", "skills", "department",
     "address.city", "projects"}

\* condition.value
CondValues ==
    {Undef, Null, Bool(TRUE), Bool(FALSE), Num(0), Num(5), Infinity,
     Str(<<>>), Str(sSpace), Str(sJo), Str(sO), Str(sHR), Str(sFive), Str(sJan15), Str(sOpenParen),
     Arr(<<>>), Arr(<<Str(sGo)>>), Arr(<<Str(<<>>)>>),
     Obj([min |-> Num(0), max |-> Num(5)]), Obj([min |-> Num(5), max |-> Num(0)]),
     Obj([min |-> Str(<<>>), max |-> Num(5)]), Obj([min |-> Str(sFive), max |-> Num(5)]),
     Obj([min |-> Num(0), max |-> Infinity]), Obj([min |-> Num(0)]),
     Obj([min |-> Num(0), max |-> Num(0)]),
     Obj([min |-> Str(sJo), max |-> Num(5)]),
     Str(sJan15Ten), Obj([from |-> Str(sJan15), to |-> Str(sJan15)]),
     Obj([from |-> Str(sJan15), to |-> Str(sFeb01)]),
     Obj([from |-> Str(sFeb01), to |-> Str(sJan15)])}

\* condition.nestedKey: absent, or a path (also one that is not the field's own)
CondNestedKeys(field) ==
    IF field \in {"name", "address.city"} THEN {"", "address.city"} ELSE {""}

Conditions ==
    {Condition("c", f, ft, op, v, nk) :
        f \in CondFields, ft \in FieldTypes, op \in Operators \cup {""},
        v \in CondValues, nk \in {"", "address.city"}}

\* Records: complete, empty, all null, of unexpected types, a second employee,
\* and one whose values are the empty string and 0
RecFull ==
    Obj([name |-> Str(sJo), email |-> Str(sMail), department |-> Str(sHR),
         role |-> Str(sDev), salary |-> Num(5), joinDate |-> Str(sJan15),
         isActive |-> Bool(TRUE), skills |-> Arr(<<Str(sGo)>>),
         address |-> Obj([city |-> Str(sNYC), state |-> Str(sNY)]),
         projects |-> Num(0), lastReview |-> Str(sFeb01), performanceRating |-> Num(5)])
RecEmpty == Obj(<<>>)
RecNull ==
    Obj([name |-> Null, department |-> Null, salary |-> Null, joinDate |-> Null,
         isActive |-> Null, skills |-> Null, address |-> Null, projects |-> Null])
RecOdd ==
    Obj([name |-> Num(5), department |-> Num(0), salary |-> Str(sJo),
         joinDate |-> Str(sJo), isActive |-> Str(sFalse), skills |-> Str(sGo),
         address |-> Str(sNYC), projects |-> Str(sFive)])
RecOther ==
    Obj([name |-> Str(sHR), email |-> Str(sMail), department |-> Str(sJo),
         role |-> Str(sDev), salary |-> Num(0), joinDate |-> Str(sJan15Ten),
         isActive |-> Bool(FALSE), skills |-> Arr(<<>>),
         projects |-> Num(5), lastReview |-> Str(sJan15), performanceRating |-> Num(0)])

RecFalsy ==
    Obj([name |-> Str(<<>>), department |-> Str(<<>>), salary |-> Num(0),
         joinDate |-> Str(<<>>), isActive |-> Num(0), skills |-> Str(<<>>),
         address |-> Obj([city |-> Str(<<>>)]), projects |-> Num(0)])

Records == {RecFull, RecEmpty, RecNull, RecOdd, RecOther, RecFalsy}

Pending == [t |-> "pending"]
NoCondition == Condition("", "", "text", "", Undef, "")
NoFilterState == [conditions |-> <<>>, logicalOperator |-> "AND"]

-----------------------------------------------------------------------------
(* Spec: one condition is validated, then evaluated against a record *)

ValidatorIdle == cond = NoCondition /\ rec = Undef /\ verdict = Pending /\ match = Pending
ApplyIdle ==
    afData = <<>> /\ afConditions = <<>> /\ afOperator = "AND" /\ afResult = Pending
AppIdle ==
    /\ employeeData = <<>> /\ filterState = NoFilterState
    /\ filteredData = Pending /\ evaluated = {} /\ fetching = FALSE

StoreIdle == stored = NoItem /\ storageFull = FALSE
BuilderIdle ==
    /\ timers = {} /\ timeoutRef = 0 /\ mounted = FALSE
    /\ created = 0 /\ reported = <<>> /\ sinceEdit = 0

Init ==
    /\ env \in Engines
    /\ cond \in {c \in Conditions : c.nestedKey \in CondNestedKeys(c.field)}
    /\ rec = Undef
    /\ verdict = Pending
    /\ match = Pending
    /\ ApplyIdle /\ AppIdle /\ StoreIdle /\ BuilderIdle

Validate ==
    /\ verdict = Pending
    /\ verdict' = validateCondition(cond, env)
    /\ UNCHANGED <<env, cond, rec, match, applyVars, appVars,
                   storeVars, builderVars>>

Evaluate ==
    /\ verdict # Pending
    /\ match = Pending
    /\ \E r \in Records :
        /\ rec' = r
        /\ match' = evaluateCondition(r, cond, env)
    /\ UNCHANGED <<env, cond, verdict, applyVars, appVars,
                   storeVars, builderVars>>

Next == Validate \/ Evaluate

Spec == Init /\ [][Next]_vars

-----------------------------------------------------------------------------
(* SpecApply: FilterEngine.applyFilters is called on a record list, a      *)
(* condition list and a logical operator                                   *)

MaxData == 2
MaxConditions == 2

\* The sequences over S of length at most n
SeqsUpTo(S, n) == UNION {[1..k -> S] : k \in 0..n}

\* Conditions as the UI builds them, the row Add Filter creates, a range with
\* no value, and a comparison with 0
ApplyConditions ==
    {Condition("c1", "department", "singleSelect", "is", Str(sHR), ""),
     Condition("c2", "salary", "amount", "lessThan", Num(5), ""),
     Condition("c3", "skills", "multiSelect", "notIn", Arr(<<Str(sGo)>>), ""),
     Condition("c4", "", "text", "equals", Str(<<>>), ""),
     Condition("c5", "projects", "number", "between", Undef, ""),
     Condition("c6", "salary", "amount", "greaterThan", Num(0), "")}

ApplyRecords == {RecFull, RecOther, RecEmpty}

InitApply ==
    /\ env \in Engines
    /\ afData \in SeqsUpTo(ApplyRecords, MaxData)
    /\ afConditions \in SeqsUpTo(ApplyConditions, MaxConditions)
    /\ afOperator \in {"AND", "OR"}
    /\ afResult = Pending
    /\ ValidatorIdle /\ AppIdle /\ StoreIdle /\ BuilderIdle

Apply ==
    /\ afResult = Pending
    /\ afResult' = applyFilters(afData, afConditions, afOperator, env)
    /\ UNCHANGED <<env, afData, afConditions, afOperator, validatorVars, appVars,
                   storeVars, builderVars>>

NextApply == Apply

SpecApply == InitApply /\ [][NextApply]_vars

-----------------------------------------------------------------------------
(* SpecApp: the App component. Every change of its state re-renders it,    *)
(* and the render recomputes filteredData.                                 *)

\* Two conditions the validator accepts, and the row Add Filter creates
AppConditions ==
    {Condition("c1", "department", "singleSelect", "is", Str(sHR), ""),
     Condition("c2", "salary", "amount", "lessThan", Num(5), ""),
     Condition("c4", "", "text", "equals", Str(<<>>), "")}

AppRecords == {RecFull, RecOther}

FilterStates ==
    [conditions : SeqsUpTo(AppConditions, MaxConditions), logicalOperator : {"AND", "OR"}]

\* A render of App with the given state
Render(data, fs) ==
    /\ filteredData' = computeFilteredData(data, fs, env)
    /\ evaluated' = renderCalls(data, fs, env)

\* The effects of a render that did not throw: the filter state is saved
Saved(item, fs, full, rendered) ==
    IF rendered = Throw THEN item ELSE savedItem(item, fs, full)

\* setFilterState(fs): the render with the new filter state, then the effect
\* that saves it
SetFilterState(fs) ==
    /\ filterState' = fs
    /\ Render(employeeData, fs)
    /\ stored' = Saved(stored, fs, storageFull, filteredData')
    /\ UNCHANGED <<employeeData, fetching, storageFull>>

\* The first render: the default employees, and the filter state found in
\* localStorage, or the empty one; the save effect writes it back
InitApp ==
    /\ env \in Engines
    /\ employeeData \in SeqsUpTo(AppRecords, MaxData) \ {<<>>}
    /\ filterState \in FilterStates
    /\ filteredData = computeFilteredData(employeeData, filterState, env)
    /\ evaluated = renderCalls(employeeData, filterState, env)
    /\ fetching = TRUE
    /\ storageFull = FALSE
    /\ stored = Saved(Json(JsonOfFilterState(filterState)), filterState,
                      storageFull, filteredData)
    /\ ValidatorIdle /\ ApplyIdle /\ BuilderIdle

\* onFiltersChange = setFilterState, called by FilterBuilder
OnFiltersChange ==
    \E fs \in FilterStates :
        /\ SetFilterState(fs)
        /\ UNCHANGED <<env, validatorVars, applyVars, builderVars>>

\* fetchEmployees resolves: data replaces the employees when it is not empty
FetchEmployeesResolves ==
    /\ fetching
    /\ \E data \in SeqsUpTo(AppRecords, MaxData) :
        /\ employeeData' = IF Len(data) > 0 THEN data ELSE employeeData
        /\ Render(employeeData', filterState)
    /\ fetching' = FALSE
    /\ UNCHANGED <<env, filterState, validatorVars, applyVars,
                   storeVars, builderVars>>

\* fetchEmployees rejects: the employees stay
FetchEmployeesRejects ==
    /\ fetching
    /\ fetching' = FALSE
    /\ UNCHANGED <<env, employeeData, filterState, filteredData, evaluated,
                   validatorVars, applyVars,
                   storeVars, builderVars>>

NextApp == OnFiltersChange \/ FetchEmployeesResolves \/ FetchEmployeesRejects

SpecApp == InitApp /\ [][NextApp]_vars

-----------------------------------------------------------------------------
(* SpecStore: the App component and the item localStorage holds under the  *)
(* key dynamicFilterState, over page loads. The item found at the first    *)
(* load is any of StorageContents; setItem either works or throws for the  *)
(* whole run.                                                              *)

\* Conditions with every kind of value the rows produce, the row Add Filter
\* creates, and a comparison with Number('1e999')
StoreConditions ==
    <<Condition("s1", "department", "singleSelect", "is", Str(sHR), ""),
      Condition("s2", "address.city", "text", "contains", Str(sJo), "address.city"),
      Condition("s3", "salary", "amount", "between",
                Obj([min |-> Num(0), max |-> Str(<<>>)]), ""),
      Condition("s4", "skills", "multiSelect", "in", Arr(<<Str(sGo)>>), ""),
      Condition("s5", "isActive", "boolean", "is", Bool(FALSE), ""),
      Condition("s6", "", "text", "equals", Str(<<>>), ""),
      Condition("s7", "projects", "number", "lessThan", Infinity, "")>>

StoreLists ==
    {<<>>,
     <<StoreConditions[1], StoreConditions[2]>>,
     <<StoreConditions[2], StoreConditions[1]>>,
     <<StoreConditions[3], StoreConditions[4]>>,
     <<StoreConditions[5], StoreConditions[6]>>,
     <<StoreConditions[7]>>}

StoreStates == [conditions : StoreLists, logicalOperator : {"AND", "OR"}]

\* No item, the empty text, text that is not JSON, the JSON texts null, 5
\* and {}, and the texts the application itself has written
StorageContents ==
    {NoItem, EmptyText, NotJson, Json(JNull), Json(JNum(5)), Json(JObj(<<>>))}
        \cup {Json(JsonOfFilterState(fs)) : fs \in StoreStates}

DefaultEmployees == <<RecFull, RecOther>>

\* The last render returned: the page shows the application
Alive == filteredData # Throw

\* A page load: the state initialisers, the first render, and the effects
\* of a render that did not throw
InitStore ==
    /\ env \in Engines
    /\ storageFull \in BOOLEAN
    /\ employeeData = DefaultEmployees
    /\ \E item \in StorageContents :
        /\ filterState = initialFilterState(item)
        /\ filteredData = computeFilteredData(employeeData, filterState, env)
        /\ stored = Saved(item, filterState, storageFull, filteredData)
    /\ evaluated = renderCalls(employeeData, filterState, env)
    /\ fetching = TRUE
    /\ ValidatorIdle /\ ApplyIdle /\ BuilderIdle

\* onFiltersChange = setFilterState, called by FilterBuilder
StoreOnFiltersChange ==
    /\ Alive
    /\ \E fs \in StoreStates : SetFilterState(fs)
    /\ UNCHANGED <<env, validatorVars, applyVars, builderVars>>

\* The user reloads the page
Reload ==
    /\ filterState' = initialFilterState(stored)
    /\ employeeData' = DefaultEmployees
    /\ Render(employeeData', filterState')
    /\ stored' = Saved(stored, filterState', storageFull, filteredData')
    /\ fetching' = TRUE
    /\ UNCHANGED <<env, storageFull, validatorVars, applyVars, builderVars>>

\* fetchEmployees settles in a page that shows the application
StoreFetchResolves == Alive /\ FetchEmployeesResolves
StoreFetchRejects == Alive /\ FetchEmployeesRejects

NextStore == StoreOnFiltersChange \/ Reload \/ StoreFetchResolves \/ StoreFetchRejects

SpecStore == InitStore /\ [][NextStore]_vars

-----------------------------------------------------------------------------
(* SpecBuilder: FilterBuilder and its condition rows inside App, from an   *)
(* empty filter state, after the fetch has settled. A row is controlled by *)
(* its condition prop, so every handler works on the rendered filterState. *)
(* Time advances in ticks; a timer whose delay has elapsed runs at any     *)
(* later moment.                                                           *)

\* The delay of setTimeout(..., 150), in ticks
DelayTicks == 2

\* Add Filter clicks in a run, edits between two timer firings, timer ids
MaxRows == 2
MaxBurst == 2
MaxTimers == 3

\* uuidv4(): the n-th identifier handed out
Uuids == <<"u1", "u2", "u3", "u4">>
uuidv4(n) == Uuids[n]

TimerIds == 1..MaxTimers

\* The fields and the operators the user picks, and what the user enters
EditFields == {"salary", "address.city", "skills"}
EditOperators == {"equals", "between"}
TextEntries == {Str(sJo)}
NumberEntries == {Num(5)}
DateEntries == {Str(sJan15)}
SelectEntries == {Str(sHR)}
MultiSelectEntries == {Arr(<<Str(sGo)>>)}
BooleanEntries == {Bool(TRUE), Bool(FALSE)}

\* getDefaultValue(fieldType, operator); operator "" stands for no argument
getDefaultValue(fieldType, operator) ==
    IF operator = "between"
    THEN IF fieldType = "date"
         THEN Obj([from |-> Str(<<>>), to |-> Str(<<>>)])
         ELSE Obj([min |-> Str(<<>>), max |-> Str(<<>>)])
    ELSE CASE fieldType = "boolean" -> Bool(TRUE)
           [] fieldType = "multiSelect" -> Arr(<<>>)
           [] OTHER -> Str(<<>>)

\* handleFieldChange without resetting the operator
handleFieldChangeKeepsOperator(condition, fieldKey) ==
    [condition EXCEPT !.field = fieldKey,
                      !.fieldType = FindFieldDef(fieldKey).type,
                      !.value = getDefaultValue(FindFieldDef(fieldKey).type, ""),
                      !.nestedKey = FindFieldDef(fieldKey).nestedKey]

\* handleFieldChange(fieldKey) of the row showing condition: the updated
\* condition, for a key of the registry
handleFieldChange(condition, fieldKey) ==
    [condition EXCEPT !.field = fieldKey,
                      !.fieldType = FindFieldDef(fieldKey).type,
                      !.operator = FindFieldDef(fieldKey).operators[1],
                      !.value = getDefaultValue(FindFieldDef(fieldKey).type, ""),
                      !.nestedKey = FindFieldDef(fieldKey).nestedKey]

\* handleOperatorChange(operator): the updated condition
handleOperatorChange(condition, operator) ==
    [condition EXCEPT !.operator = operator,
                      !.value = getDefaultValue(condition.fieldType, operator)]

\* handleValueChange(newValue): the updated condition
handleValueChange(condition, newValue) ==
    [condition EXCEPT !.value = newValue]

\* { ...value, [p]: x } for a value that is an object, or a primitive
\* without index keys
SpreadWith(value, p, x) ==
    Obj([k \in (IF value.t = "object" THEN DOMAIN value.f ELSE {}) \cup {p} |->
            IF k = p THEN x ELSE value.f[k]])

\* What the value input of a row passes to handleValueChange: the input is
\* chosen by the type of the selected field and the condition's operator.
\* attr names the input (value, or one end of a range).
ValueInputs(condition) ==
    IF condition.field \notin FieldKeys THEN {}
    ELSE CASE FindFieldDef(condition.field).type = "text" ->
                {[attr |-> "value", val |-> v] : v \in TextEntries}
           [] FindFieldDef(condition.field).type \in {"number", "amount"} ->
                IF condition.operator = "between"
                THEN {[attr |-> a, val |-> SpreadWith(condition.value, a, v)] :
                         a \in {"min", "max"}, v \in NumberEntries}
                ELSE {[attr |-> "value", val |-> v] : v \in NumberEntries}
           [] FindFieldDef(condition.field).type = "date" ->
                IF condition.operator = "between"
                THEN {[attr |-> a, val |-> SpreadWith(condition.value, a, v)] :
                         a \in {"from", "to"}, v \in DateEntries}
                ELSE {[attr |-> "value", val |-> v] : v \in DateEntries}
           [] FindFieldDef(condition.field).type = "singleSelect" ->
                {[attr |-> "value", val |-> v] : v \in SelectEntries}
           [] FindFieldDef(condition.field).type = "multiSelect" ->
                {[attr |-> "value", val |-> v] : v \in MultiSelectEntries}
           [] OTHER ->
                {[attr |-> "value", val |-> v] : v \in BooleanEntries}

\* The options of the operator select: none while no field is selected
OperatorOptions(condition) ==
    IF condition.field \notin FieldKeys THEN {}
    ELSE {FindFieldDef(condition.field).operators[i] :
             i \in DOMAIN FindFieldDef(condition.field).operators}

\* const newCondition = {id: uuidv4(), field: '', fieldType: 'text', ...}
newCondition(id) == Condition(id, "", "text", "equals", Str(<<>>), "")

\* handleAddFilter: the state passed to onFiltersChange
handleAddFilter(fs, id) ==
    [fs EXCEPT !.conditions = Append(@, newCondition(id))]

\* handleUpdateCondition that puts the updated condition in the first row
handleUpdateConditionFirst(fs, id, updatedCondition) ==
    [fs EXCEPT !.conditions =
        [i \in DOMAIN @ |-> IF i = 1 THEN updatedCondition ELSE @[i]]]

\* handleUpdateCondition: newFilterState
handleUpdateCondition(fs, id, updatedCondition) ==
    [fs EXCEPT !.conditions =
        [i \in DOMAIN @ |-> IF @[i].id = id THEN updatedCondition ELSE @[i]]]

\* handleRemoveCondition: the state passed to onFiltersChange
handleRemoveCondition(fs, id) ==
    [fs EXCEPT !.conditions = SelectSeq(@, LAMBDA c : c.id # id)]

\* handleClearAll: the state passed to onFiltersChange
handleClearAll(fs) == [fs EXCEPT !.conditions = <<>>]

\* const hasErrors = filterState.conditions.some(...)
hasErrors(fs, e) ==
    \E i \in DOMAIN fs.conditions :
        /\ fs.conditions[i].field # ""
        /\ validateCondition(fs.conditions[i], e) # NoError

\* A timer set by setTimeout: its id, the ticks left, and the
\* newFilterState its callback holds
Timer(id, remaining, newFilterState) ==
    [id |-> id, remaining |-> remaining, newFilterState |-> newFilterState]

\* setTimeout returns an id no live timer has; the id debounceTimeoutRef
\* holds is older, so it is not returned either
setTimeoutId(live, ref) ==
    CHOOSE id \in TimerIds :
        /\ id # ref /\ id \notin {t.id : t \in live}
        /\ \A other \in TimerIds :
              (other # ref /\ other \notin {t.id : t \in live}) => id <= other

\* handleFiltersChangeDebounced without the clearTimeout
debouncedTimersNoClear(live, ref, newFilterState) ==
    live \cup {Timer(setTimeoutId(live, ref), DelayTicks, newFilterState)}

\* handleFiltersChangeDebounced: the timers after clearTimeout(ref) and setTimeout
debouncedTimers(live, ref, newFilterState) ==
    {t \in live : t.id # ref}
        \cup {Timer(setTimeoutId(live, ref), DelayTicks, newFilterState)}

\* The cleanup of the unmount effect: clearTimeout(debounceTimeoutRef.current)
cleanupTimers(live, ref) == {t \in live : t.id # ref}

\* An edit a row reported through onConditionChange
Edit(id, attr, condition) == [id |-> id, attr |-> attr, condition |-> condition]

InitBuilder ==
    /\ env \in {e \in Engines : ~e.legacyDate}
    /\ employeeData = DefaultEmployees
    /\ filterState = EmptyFilterState
    /\ filteredData = computeFilteredData(employeeData, filterState, env)
    /\ evaluated = renderCalls(employeeData, filterState, env)
    /\ fetching = FALSE
    /\ storageFull = FALSE
    /\ stored = Saved(NoItem, filterState, storageFull, filteredData)
    /\ timers = {}
    /\ timeoutRef = 0
    /\ mounted = TRUE
    /\ created = 0
    /\ reported = <<>>
    /\ sinceEdit = 0
    /\ ValidatorIdle /\ ApplyIdle

\* The Add Filter button
AddFilter ==
    /\ mounted
    /\ created < MaxRows
    /\ created' = created + 1
    /\ SetFilterState(handleAddFilter(filterState, uuidv4(created')))
    /\ UNCHANGED <<env, validatorVars, applyVars,
                   timers, timeoutRef, mounted, reported, sinceEdit>>

\* onConditionChange(updated) of the row with the id: handleUpdateCondition
\* and handleFiltersChangeDebounced
ConditionChange(id, attr, updated) ==
    /\ mounted
    /\ Len(reported) < MaxBurst
    /\ \E free \in TimerIds : free # timeoutRef /\ free \notin {t.id : t \in timers}
    /\ timers' = debouncedTimers(timers, timeoutRef,
                                 handleUpdateCondition(filterState, id, updated))
    /\ timeoutRef' = setTimeoutId(timers, timeoutRef)
    /\ reported' = Append(reported, Edit(id, attr, updated))
    /\ sinceEdit' = 0
    /\ UNCHANGED <<env, validatorVars, applyVars, appVars, storeVars,
                   mounted, created>>

\* The field select of a row
FieldChange ==
    \E i \in DOMAIN filterState.conditions, fieldKey \in EditFields :
        /\ fieldKey # filterState.conditions[i].field
        /\ ConditionChange(filterState.conditions[i].id, "field",
                           handleFieldChange(filterState.conditions[i], fieldKey))

\* The operator select of a row
OperatorChange ==
    \E i \in DOMAIN filterState.conditions :
        \E operator \in OperatorOptions(filterState.conditions[i]) \cap EditOperators :
            /\ operator # filterState.conditions[i].operator
            /\ ConditionChange(filterState.conditions[i].id, "operator",
                               handleOperatorChange(filterState.conditions[i], operator))

\* The value input of a row
ValueChange ==
    \E i \in DOMAIN filterState.conditions :
        \E input \in ValueInputs(filterState.conditions[i]) :
            /\ input.val # filterState.conditions[i].value
            /\ ConditionChange(filterState.conditions[i].id, input.attr,
                               handleValueChange(filterState.conditions[i], input.val))

\* The remove button of a row
RemoveCondition ==
    /\ mounted
    /\ \E i \in DOMAIN filterState.conditions :
        SetFilterState(handleRemoveCondition(filterState, filterState.conditions[i].id))
    /\ UNCHANGED <<env, validatorVars, applyVars, builderVars>>

\* The Clear All button, shown while there are conditions
ClearAll ==
    /\ mounted
    /\ Len(filterState.conditions) > 0
    /\ SetFilterState(handleClearAll(filterState))
    /\ UNCHANGED <<env, validatorVars, applyVars, builderVars>>

\* The AND/OR radio group, shown while there are conditions and no errors
LogicalOperatorChange ==
    /\ mounted
    /\ Len(filterState.conditions) > 0
    /\ ~hasErrors(filterState, env)
    /\ \E op \in {"AND", "OR"} \ {filterState.logicalOperator} :
        SetFilterState([filterState EXCEPT !.logicalOperator = op])
    /\ UNCHANGED <<env, validatorVars, applyVars, builderVars>>

\* One tick passes
Tick ==
    /\ timers # {}
    /\ \E t \in timers : t.remaining > 0
    /\ timers' = {Timer(t.id, IF t.remaining > 0 THEN t.remaining - 1 ELSE 0,
                        t.newFilterState) : t \in timers}
    /\ sinceEdit' = IF sinceEdit < DelayTicks THEN sinceEdit + 1 ELSE sinceEdit
    /\ UNCHANGED <<env, validatorVars, applyVars, appVars, storeVars,
                   timeoutRef, mounted, created, reported>>

\* A timer's callback runs: onFiltersChange(newFilterState)
TimerFires ==
    \E t \in timers :
        /\ t.remaining = 0
        /\ timers' = timers \ {t}
        /\ SetFilterState(t.newFilterState)
        /\ reported' = <<>>
        /\ sinceEdit' = 0
        /\ UNCHANGED <<env, validatorVars, applyVars,
                       timeoutRef, mounted, created>>

\* FilterBuilder unmounts: the cleanup of its effect
Unmount ==
    /\ mounted
    /\ mounted' = FALSE
    /\ timers' = cleanupTimers(timers, timeoutRef)
    /\ reported' = <<>>
    /\ UNCHANGED <<env, validatorVars, applyVars, appVars, storeVars,
                   timeoutRef, created, sinceEdit>>

NextBuilder ==
    \/ AddFilter
    \/ FieldChange
    \/ OperatorChange
    \/ ValueChange
    \/ RemoveCondition
    \/ ClearAll
    \/ LogicalOperatorChange
    \/ Tick
    \/ TimerFires
    \/ Unmount

SpecBuilder == InitBuilder /\ [][NextBuilder]_vars

-----------------------------------------------------------------------------
(* Properties of validateCondition and evaluateCondition, under Spec *)

Validated == verdict # Pending
Evaluated == match # Pending

\* The field definition a condition refers to, for a field of the registry
DefOf(c) == FindFieldDef(c.field)

\* The operators the FieldType/operator table of the specification allows a
\* field type: Amount shares the operators of Number
LegalOperators(type) ==
    IF type = "amount" THEN TypeOperators("number") ELSE TypeOperators(type)

\* C1: a condition whose field is no key of the registry gets a field-tagged
\* error from validateCondition, whatever its operator (empty included),
\* fieldType and value.
C1_UnknownFieldIsFieldError ==
    (Validated /\ cond.field \notin FieldKeys) => verdict.tag = "field"

\* C2: a condition whose field is in the registry and whose operator is not
\* legal for its declared fieldType gets an operator-tagged error.
C2_IllegalOperatorIsOperatorError ==
    (/\ Validated
     /\ cond.field \in FieldKeys
     /\ cond.operator \notin LegalOperators(cond.fieldType))
    => verdict.tag = "operator"

\* A finite number, or a non-empty string that Number() reads as one
IsFiniteNumeric(v) ==
    \/ v.t = "number" /\ v.k = "fin"
    \/ v.t = "string" /\ v.s # <<>> /\ StrToNumber(v.s).k = "fin"

\* A condition on a Number or Amount field, well-formed up to its value, with
\* a non-Between operator and a number, string or absent value
NumericScalarCase(c) ==
    /\ c.field \in FieldKeys
    /\ DefOf(c).type \in {"number", "amount"}
    /\ c.fieldType = DefOf(c).type
    /\ SeqIncludes(DefOf(c).operators, c.operator)
    /\ c.operator # "between"
    /\ c.value.t \in {"number", "string", "undefined", "null"}

\* C3: on a Number or Amount field with a legal non-Between operator,
\* validateCondition returns no error exactly when the value is a finite
\* number (0 included) or a numeric string; an empty, non-numeric or infinite
\* value gets a value-tagged error.
C3_NumberValueAcceptedIffFinite ==
    (Validated /\ NumericScalarCase(cond)) =>
        /\ IsFiniteNumeric(cond.value) => verdict = NoError
        /\ ~IsFiniteNumeric(cond.value) => verdict.tag = "value"

\* The condition is one the UI builds: its fieldType, operator and nestedKey
\* are those of its field's definition
WellFormed(c) ==
    /\ c.field \in FieldKeys
    /\ c.fieldType = DefOf(c).type
    /\ SeqIncludes(DefOf(c).operators, c.operator)
    /\ c.nestedKey = DefOf(c).nestedKey

\* C4: the verdict of validateCondition does not depend on the condition's
\* declared fieldType: a condition that differs only in fieldType from one
\* the UI builds gets an error with the same tag, or no error as well.
C4_VerdictIndependentOfDeclaredType ==
    (Validated /\ WellFormed(cond)) =>
        \A ft \in FieldTypes :
            validateCondition([cond EXCEPT !.fieldType = ft], env).tag = verdict.tag

\* The value is empty: "", undefined or null, or [] on a MultiSelect field
IsEmptyValue(c) ==
    \/ c.value = Str(<<>>)
    \/ IsNullish(c.value)
    \/ DefOf(c).type = "multiSelect" /\ c.value = Arr(<<>>)

\* C5: a condition whose field is in the registry, whose operator is one of
\* that field's operators and whose value is empty gets a value-tagged error,
\* unless it is the Is operator on a Boolean field.
C5_EmptyValueIsValueError ==
    (/\ Validated
     /\ cond.field \in FieldKeys
     /\ SeqIncludes(DefOf(cond).operators, cond.operator)
     /\ IsEmptyValue(cond)
     /\ ~(DefOf(cond).type = "boolean" /\ cond.operator = "is"))
    => verdict.tag = "value"

\* C6: evaluateCondition returns a boolean, and does not throw, for every
\* condition validateCondition accepts and every record.
C6_AcceptedConditionNeverThrows ==
    (Evaluated /\ verdict = NoError) => match \in {Bool(TRUE), Bool(FALSE)}

\* An accepted Between or MultiSelect condition has met a record whose field
\* is missing or of an unexpected type
C6_Witness ==
    /\ Evaluated /\ verdict = NoError
    /\ cond.operator \in {"between", "in", "containsAll"}
    /\ rec \in {RecEmpty, RecNull, RecOdd}

\* The record value the condition reads is undefined or null
FieldAbsent == IsNullish(fieldValue(rec, cond))

\* C7 as stated, for the conditions the UI builds and validateCondition
\* accepts: when the condition's field is absent from the record,
\* evaluateCondition returns true for MultiSelect NotIn and SingleSelect
\* IsNot, and false for every other field type and operator.
C7_AbsentMatchesOnlyNotInIsNot ==
    (Evaluated /\ FieldAbsent /\ verdict = NoError /\ WellFormed(cond)) =>
        match = Bool(\/ cond.fieldType = "multiSelect" /\ cond.operator = "notIn"
                     \/ cond.fieldType = "singleSelect" /\ cond.operator = "isNot")

\* C7 as amended: when the condition's field is absent from the record,
\* evaluateCondition returns true for MultiSelect NotIn, for SingleSelect
\* IsNot, and for a Boolean condition whose filter value does not read "true"
\* (an absent record value counts as false); it returns false otherwise.
C7_AbsentMatches ==
    (Evaluated /\ FieldAbsent) =>
        match = Bool(\/ cond.fieldType = "multiSelect" /\ cond.operator = "notIn"
                     \/ cond.fieldType = "singleSelect" /\ cond.operator = "isNot"
                     \/ /\ cond.fieldType = "boolean"
                        /\ ToLowerCase(ToStr(cond.value)) # sTrue)

\* An accepted "isActive is false" has matched a record without isActive, and
\* the field of an accepted IsNot is absent too
C7_Witness ==
    /\ Evaluated /\ FieldAbsent /\ verdict = NoError
    /\ \/ cond.fieldType = "boolean" /\ cond.value = Bool(FALSE) /\ match = Bool(TRUE)
       \/ cond.fieldType = "singleSelect" /\ cond.operator = "isNot" /\ match = Bool(TRUE)

-----------------------------------------------------------------------------
(* Properties of applyFilters, under SpecApply *)

Applied == afResult # Pending

\* evaluateCondition is true for the record and the i-th condition of the call
HoldsFor(record, i) == evaluateCondition(record, afConditions[i], env) = Bool(TRUE)

\* The record satisfies every condition under AND, at least one under OR
Passes(record) ==
    IF afOperator = "AND"
    THEN \A i \in DOMAIN afConditions : HoldsFor(record, i)
    ELSE \E i \in DOMAIN afConditions : HoldsFor(record, i)

\* C8: for a non-empty condition list, a call of applyFilters that returns
\* keeps, in their order, exactly the records for which evaluateCondition is
\* true for every condition (AND), or for at least one condition (OR).
C8_AndKeepsEveryOrKeepsSome ==
    (Applied /\ Len(afConditions) > 0 /\ afResult # Throw) =>
        afResult = Returned(SelectSeq(afData, Passes))

\* Two different conditions have been applied to two records, one of which
\* is kept and one dropped
C8_Witness ==
    /\ Applied /\ afResult # Throw
    /\ Len(afConditions) > 1 /\ afConditions[1] # afConditions[2]
    /\ Len(afData) > 1
    /\ Len(afResult.v) = 1

\* C9: applyFilters with an empty condition list returns every input record
\* unchanged, for AND and for OR.
C9_NoConditionsReturnsData ==
    (Applied /\ Len(afConditions) = 0) => afResult = Returned(afData)

\* applyFilters has returned for OR, no condition and some records
C9_Witness ==
    /\ Applied /\ Len(afConditions) = 0
    /\ afOperator = "OR" /\ Len(afData) > 0
    /\ afResult = Returned(afData)

-----------------------------------------------------------------------------
(* Properties of the App component, under SpecApp *)

\* The positions of the conditions of the filter state that validateCondition
\* accepts
ValidIn(fs) ==
    {i \in DOMAIN fs.conditions : validateCondition(fs.conditions[i], env) = NoError}

\* The record satisfies the accepted conditions of the filter state: every
\* one under AND, at least one under OR, and trivially when there is none
Shown(record) ==
    IF ValidIn(filterState) = {} THEN TRUE
    ELSE IF filterState.logicalOperator = "AND"
    THEN \A i \in ValidIn(filterState) :
            evaluateCondition(record, filterState.conditions[i], env) = Bool(TRUE)
    ELSE \E i \in ValidIn(filterState) :
            evaluateCondition(record, filterState.conditions[i], env) = Bool(TRUE)

\* C10: in every state of App the displayed result is the employees filtered
\* by exactly the conditions validateCondition accepts (all employees when it
\* accepts none), and no condition with a validation error has been passed
\* to evaluateCondition.
C10_DisplayedIsFilterOverValidConditions ==
    /\ filteredData = Returned(SelectSeq(employeeData, Shown))
    /\ \A c \in evaluated : validateCondition(c, env) = NoError

\* The filter state holds a condition with a validation error next to an
\* accepted one, and the render has dropped an employee
C10_Witness ==
    /\ ~fetching
    /\ \E i \in DOMAIN filterState.conditions : i \notin ValidIn(filterState)
    /\ ValidIn(filterState) # {}
    /\ evaluated # {}
    /\ filteredData # Throw
    /\ Len(filteredData.v) < Len(employeeData)

-----------------------------------------------------------------------------
(* Properties of the type-specific evaluators, under Spec *)

\* evaluateCondition matches the record with the condition's operator replaced
MatchesWith(operator) ==
    evaluateCondition(rec, [cond EXCEPT !.operator = operator], env) = Bool(TRUE)

\* An evaluated Text condition with operator NotContains
NotContainsCase ==
    Evaluated /\ cond.fieldType = "text" /\ cond.operator = "notContains"

\* C11 as stated, for the conditions the UI builds and validateCondition
\* accepts: for every record, the Text operator NotContains matches exactly
\* when Contains with the same filter value does not.
C11_NotContainsNegatesContains ==
    (NotContainsCase /\ verdict = NoError /\ WellFormed(cond)) =>
        match = Bool(~MatchesWith("contains"))

\* C11 as amended: for every record in which the condition's field is present
\* (neither undefined nor null), NotContains matches exactly when Contains
\* with the same filter value does not; when the field is absent neither
\* matches.
C11_NotContainsNegatesContainsWhenPresent ==
    NotContainsCase =>
        IF FieldAbsent
        THEN match = Bool(FALSE) /\ ~MatchesWith("contains")
        ELSE match = Bool(~MatchesWith("contains"))

\* An accepted NotContains has matched a record whose field is present and
\* holds the filter value elsewhere than at its start
C11_Witness ==
    /\ NotContainsCase /\ verdict = NoError /\ ~FieldAbsent
    /\ cond.field = "name" /\ cond.value = Str(sO) /\ rec = RecFull
    /\ match = Bool(FALSE)

\* The record value read as a sequence: an array as itself, absence as the
\* empty sequence, any other value as a one-element sequence
AsSequence(v) ==
    IF v.t = "array" THEN v.a ELSE IF IsNullish(v) THEN <<>> ELSE <<v>>

\* What In, NotIn and ContainsAll are to return for a record sequence and a
\* filter sequence
MultiSelectReference(operator, recordSeq, filterSeq) ==
    CASE operator = "in" ->
            \E i \in DOMAIN recordSeq : SeqIncludes(filterSeq, recordSeq[i])
      [] operator = "notIn" ->
            ~\E i \in DOMAIN recordSeq : SeqIncludes(filterSeq, recordSeq[i])
      [] operator = "containsAll" ->
            \A j \in DOMAIN filterSeq : SeqIncludes(recordSeq, filterSeq[j])

\* An evaluated MultiSelect condition the UI builds and validateCondition accepts
MultiSelectCase ==
    /\ Evaluated /\ verdict = NoError /\ WellFormed(cond)
    /\ cond.fieldType = "multiSelect"

\* C12: for a MultiSelect condition the record value is read as a sequence
\* (an array as itself, any scalar as a one-element sequence, absence as the
\* empty sequence); In matches exactly when some record element is in the
\* filter set, NotIn is its negation, and ContainsAll matches exactly when
\* every filter element is in the record sequence.
C12_MultiSelectReadsRecordAsSequence ==
    MultiSelectCase =>
        match = Bool(MultiSelectReference(cond.operator,
                                          AsSequence(fieldValue(rec, cond)),
                                          cond.value.a))

\* C13: for every condition validateCondition accepts, evaluateCondition
\* decides the match in a branch of its field type and operator: it never
\* returns from a default branch.
C13_DefaultBranchUnreachable ==
    (Evaluated /\ verdict = NoError) => ~defaultBranch(rec, cond, env)

-----------------------------------------------------------------------------
(* Further properties of validateCondition, under Spec *)

\* C14: an error of validateCondition carries one of the tags field,
\* operator, value, and it is the tag of the first failing check in the order
\* field existence, operator legality, value shape: a field that is not in
\* the registry gives a field error, an operator that is not one of the
\* field's gives an operator error, and a value error is returned only when
\* the field is in the registry and the operator is one of the field's.
C14_FirstFailingCheckWins ==
    Validated =>
        /\ verdict.tag \in {"null", "field", "operator", "value"}
        /\ cond.field \notin FieldKeys => verdict.tag = "field"
        /\ (/\ cond.field \in FieldKeys
            /\ ~SeqIncludes(DefOf(cond).operators, cond.operator))
           => verdict.tag = "operator"
        /\ verdict.tag = "value" =>
            /\ cond.field \in FieldKeys
            /\ SeqIncludes(DefOf(cond).operators, cond.operator)

\* A Between condition on a Number or Amount field, well-formed up to its value
NumericBetweenCase(c) ==
    /\ c.field \in FieldKeys
    /\ DefOf(c).type \in {"number", "amount"}
    /\ c.fieldType = DefOf(c).type
    /\ c.operator = "between"

\* min and max are present, finite numbers or numeric strings, and min <= max
IsFiniteRange(v) ==
    /\ IsFiniteNumeric(GetProp(v, "min"))
    /\ IsFiniteNumeric(GetProp(v, "max"))
    /\ NumLe(ToNumber(GetProp(v, "min")), ToNumber(GetProp(v, "max")))

\* C15: for a Number or Amount condition with operator Between,
\* validateCondition returns no error exactly when min and max are both
\* present, both parse as finite numbers and min <= max; it returns a value
\* error otherwise.
C15_BetweenAcceptedIffFiniteRange ==
    (Validated /\ NumericBetweenCase(cond)) =>
        /\ IsFiniteRange(cond.value) => verdict = NoError
        /\ ~IsFiniteRange(cond.value) => verdict.tag = "value"

\* A condition on a Boolean field with operator Is, as the UI builds it
BooleanIsCase(c) ==
    WellFormed(c) /\ c.fieldType = "boolean" /\ c.operator = "is"

-----------------------------------------------------------------------------
(* Further properties of the type-specific evaluators, under Spec *)

\* An evaluated Number or Amount condition the UI builds and validateCondition
\* accepts, on a record whose value is a finite number
NumericCase ==
    /\ Evaluated /\ verdict = NoError /\ WellFormed(cond)
    /\ cond.fieldType \in {"number", "amount"}
    /\ fieldValue(rec, cond).t = "number" /\ fieldValue(rec, cond).k = "fin"

\* The integer v compared with the number f a filter value parses to, which
\* is finite or plus infinity
RefEq(v, f) == f.k = "fin" /\ v = f.n
RefLt(v, f) == f.k = "inf" \/ v < f.n
RefGt(v, f) == f.k = "fin" /\ v > f.n
RefLeq(v, f) == f.k = "inf" \/ v <= f.n
RefGeq(v, f) == f.k = "fin" /\ v >= f.n

\* The reference comparison of the record number v with the filter value
NumberReference(operator, v, filterValue) ==
    CASE operator = "equals" -> RefEq(v, ToNumber(filterValue))
      [] operator = "greaterThan" -> RefGt(v, ToNumber(filterValue))
      [] operator = "lessThan" -> RefLt(v, ToNumber(filterValue))
      [] operator = "greaterThanOrEqual" -> RefGeq(v, ToNumber(filterValue))
      [] operator = "lessThanOrEqual" -> RefLeq(v, ToNumber(filterValue))
      [] operator = "between" ->
            /\ RefGeq(v, ToNumber(GetProp(filterValue, "min")))
            /\ RefLeq(v, ToNumber(GetProp(filterValue, "max")))

\* C17: for an accepted Number or Amount condition and a numeric record value
\* v, Between {min, max} matches exactly when min <= v <= max, and Equals,
\* GreaterThan, LessThan, GreaterThanOrEqual, LessThanOrEqual match exactly
\* when v is =, >, <, >=, <= the filter value.
C17_NumberAgreesWithComparison ==
    NumericCase =>
        match = Bool(NumberReference(cond.operator, fieldValue(rec, cond).n, cond.value))

\* A Between has matched a record value that is its upper bound and above
\* its lower bound
C17_Witness ==
    /\ NumericCase /\ cond.operator = "between"
    /\ cond.value = Obj([min |-> Num(0), max |-> Num(5)])
    /\ fieldValue(rec, cond) = Num(5)
    /\ match = Bool(TRUE)

\* An evaluated Date condition the UI builds and validateCondition accepts
DateCase ==
    /\ Evaluated /\ verdict = NoError /\ WellFormed(cond)
    /\ cond.fieldType = "date"

\* v is a string YYYY-MM-DD or YYYY-MM-DDTHH:MM that names a date
IsIsoValue(v) ==
    /\ v.t = "string"
    /\ IsIsoDate(v.s) \/ IsIsoDateTime(v.s)
    /\ ~DateIsNaN(NewDate(v, env))

\* The calendar date an ISO string names, in days from 1970-01-01
WrittenDay(v) ==
    DaysFromCivil(DigitsToNat(SubSeq(v.s, 1, 4)), DigitsToNat(SubSeq(v.s, 6, 7)),
                  DigitsToNat(SubSeq(v.s, 9, 10)))

\* The instant of a Date in milliseconds from the epoch
EpochMs(x) == x.d * MsPerDay + x.ms

\* The instant new Date(v) gives for the value v
InstantOf(v) == EpochMs(NewDate(v, env))

\* C18: for an accepted Date condition and a record value that names a date,
\* Equals matches exactly when the record value and the filter value name
\* the same calendar date, whatever their time of day; Before and After
\* match exactly when the record instant is strictly earlier / later than
\* the filter instant; Between {from, to} matches exactly when
\* from <= record instant <= to.
C18_DateAgreesWithCalendar ==
    (DateCase /\ IsIsoValue(fieldValue(rec, cond))) =>
        LET value == fieldValue(rec, cond) IN
        CASE cond.operator = "equals" ->
                IsIsoValue(cond.value) =>
                    match = Bool(WrittenDay(value) = WrittenDay(cond.value))
          [] cond.operator = "before" ->
                match = Bool(InstantOf(value) < InstantOf(cond.value))
          [] cond.operator = "after" ->
                match = Bool(InstantOf(value) > InstantOf(cond.value))
          [] cond.operator = "between" ->
                match = Bool(/\ InstantOf(GetProp(cond.value, "from")) <= InstantOf(value)
                             /\ InstantOf(value) <= InstantOf(GetProp(cond.value, "to")))

\* An evaluated Text condition with operator Regex whose filter value,
\* read as the evaluator reads it, is a pattern new RegExp rejects
BadRegexCase ==
    /\ Evaluated
    /\ cond.fieldType = "text" /\ cond.operator = "regex"
    /\ RegExpThrows(ToLowerCase(ToStr(cond.value)), 0, FALSE)

\* C19: a Text condition with operator Regex whose filter value does not
\* compile as a pattern evaluates to false on every record, and the
\* evaluation does not throw.
C19_BadRegexIsFalse ==
    BadRegexCase => match = Bool(FALSE)

\* The pattern "(" is accepted by validateCondition and evaluated on a
\* record whose name is a non-empty string
C19_Witness ==
    /\ BadRegexCase /\ verdict = NoError
    /\ cond.field = "name" /\ cond.value = Str(sOpenParen)
    /\ rec = RecFull /\ match = Bool(FALSE)

-----------------------------------------------------------------------------
(* Properties of getNestedValue, under Spec *)

\* The path evaluateCondition resolves, and its dot-separated segments
PathOf(c) == IF c.nestedKey # "" THEN c.nestedKey ELSE c.field
Segments == SplitPath(PathOf(cond))

\* The node the first k segments lead to is an object holding segment k + 1
SegmentExists(k) ==
    IF k = 0 THEN Segments[1] \in DOMAIN rec.f
    ELSE /\ Segments[1] \in DOMAIN rec.f
         /\ rec.f[Segments[1]].t = "object"
         /\ Segments[2] \in DOMAIN rec.f[Segments[1]].f

\* The value at the end of a path whose segments all exist
NestedValue ==
    IF Len(Segments) = 1 THEN rec.f[Segments[1]]
    ELSE rec.f[Segments[1]].f[Segments[2]]

\* An accepted condition on address.city evaluated on a record whose
\* address is missing
NoAddressCase ==
    /\ Evaluated /\ verdict = NoError /\ WellFormed(cond)
    /\ PathOf(cond) = "address.city"
    /\ "address" \notin DOMAIN rec.f

\* C20: resolving the path of a condition against a record gives the nested
\* value when every segment of the path exists and "no value" (undefined)
\* as soon as one is absent, never an exception; an accepted condition on
\* address.city evaluated on a record without address is a non-match.
C20_PathResolvesOrNoValue ==
    Evaluated =>
        /\ fieldValue(rec, cond) =
               IF \A k \in 0..(Len(Segments) - 1) : SegmentExists(k)
               THEN NestedValue ELSE Undef
        /\ fieldValue(rec, cond) # Throw
        /\ NoAddressCase => match = Bool(FALSE)

\* Both cases happen: address.city resolved to the city of a full record,
\* and evaluated to a non-match on a record without address
C20_WitnessNested ==
    /\ Evaluated /\ verdict = NoError /\ WellFormed(cond)
    /\ PathOf(cond) = "address.city" /\ rec = RecFull
    /\ fieldValue(rec, cond) = Str(sNYC)

C20_Witness ==
    /\ NoAddressCase /\ rec = RecOther
    /\ cond.operator = "equals" /\ cond.value = Str(sJo)
    /\ match = Bool(FALSE)

-----------------------------------------------------------------------------
(* Further properties of applyFilters, under SpecApply *)

\* sub is seq with some of its elements left out: the elements of sub are
\* elements of seq at strictly increasing positions
IsSubsequence(sub, seq) ==
    \E f \in [1..Len(sub) -> 1..Len(seq)] :
        /\ \A i \in 1..Len(sub) : sub[i] = seq[f[i]]
        /\ \A i \in 1..Len(sub) : \A j \in 1..Len(sub) : i < j => f[i] < f[j]

\* C21: when applyFilters returns, its output is a subsequence of the input
\* records: every output record is an unaltered input record, none appears
\* more often than in the input, and the order is the input order.
C21_OutputIsSubsequenceOfInput ==
    (Applied /\ afResult # Throw) => IsSubsequence(afResult.v, afData)

\* Two different records are both kept by a non-empty condition list
C21_Witness ==
    /\ Applied /\ afConditions # <<>>
    /\ Len(afData) >= 2 /\ afData[1] # afData[2]
    /\ afResult = Returned(afData)

\* The first of two different records is dropped, the second kept
C21_WitnessDropped ==
    /\ Applied /\ afConditions # <<>>
    /\ Len(afData) >= 2 /\ afData[1] # afData[2]
    /\ afResult = Returned(Tail(afData))

\* What applyFilters gives with OR on the records and conditions of the call
ResultWithOr == applyFilters(afData, afConditions, "OR", env)

\* C22: for a non-empty condition list, every record applyFilters returns
\* with AND is returned by applyFilters with OR on the same records and
\* conditions.
C22_AndResultWithinOrResult ==
    (Applied /\ afConditions # <<>> /\ afOperator = "AND" /\ afResult # Throw) =>
        \A i \in DOMAIN afResult.v :
            /\ ResultWithOr # Throw
            /\ \E j \in DOMAIN ResultWithOr.v : ResultWithOr.v[j] = afResult.v[i]

\* AND returns a record, and OR returns that record and one more
C22_Witness ==
    /\ Applied /\ Len(afConditions) >= 2 /\ afOperator = "AND"
    /\ afResult # Throw /\ ResultWithOr # Throw
    /\ Len(afResult.v) = 1 /\ Len(ResultWithOr.v) = 2

-----------------------------------------------------------------------------
(* Properties of the saved filter state, under SpecStore *)

\* Every number in the value is finite
RECURSIVE AllFinite(_)
AllFinite(v) ==
    CASE v.t = "number" -> v.k = "fin"
      [] v.t = "array" -> \A i \in DOMAIN v.a : AllFinite(v.a[i])
      [] v.t = "object" -> \A k \in DOMAIN v.f : AllFinite(v.f[k])
      [] OTHER -> TRUE

C28_InitialFilterStateWellFormed ==
    /\ IsFilterState(filterState)
    /\ filterState.logicalOperator \in {"AND", "OR"}

-----------------------------------------------------------------------------
(* A relation between the Date operators, under Spec *)

\* The condition with operator Between and the range from d to d, where d
\* is the filter date of the condition
BetweenSameDay(c) ==
    [c EXCEPT !.operator = "between",
              !.value = Obj([from |-> c.value, to |-> c.value])]

\* C29: when an accepted Date condition with operator Equals and filter
\* date d matches a record, the condition with operator Between and the
\* range {from: d, to: d} is accepted and matches that record too.
C29_EqualsImpliesBetweenSameDay ==
    (/\ DateCase /\ cond.operator = "equals" /\ match = Bool(TRUE))
        => /\ validateCondition(BetweenSameDay(cond), env) = NoError
           /\ evaluateCondition(rec, BetweenSameDay(cond), env) = Bool(TRUE)


-----------------------------------------------------------------------------
(* Properties of FilterBuilder and its rows, under SpecBuilder *)

\* A timer's callback runs and finds the component mounted
Delivery == TimerFires /\ mounted

\* C24: condition edits reach onFiltersChange only after 150 ms without a
\* further edit. While edits are pending exactly one timer is live, so a
\* burst of edits leads to one call; that call is made no sooner than the
\* delay after the last edit and carries the condition of the last edit;
\* after the component has unmounted no timer is left to make a call.
C24_DebouncedCallAfterQuietDelay ==
    /\ [](/\ Cardinality(timers) <= 1
          /\ mounted => (timers # {} <=> reported # <<>>)
          /\ ~mounted => timers = {})
    /\ [][TimerFires =>
            /\ sinceEdit >= DelayTicks
            /\ timers' = {}
            /\ \E i \in DOMAIN filterState'.conditions :
                   filterState'.conditions[i] = reported[Len(reported)].condition]_vars

\* A burst of two edits whose delay has elapsed: the call is due
C24_Witness ==
    /\ mounted
    /\ Len(reported) = 2
    /\ sinceEdit = DelayTicks
    /\ \E t \in timers : t.remaining = 0

\* The ids of the conditions of a filter state
ConditionIds(fs) == {fs.conditions[i].id : i \in DOMAIN fs.conditions}

\* C25: an immediate change (Add Filter, Remove, Clear All, AND/OR) is never
\* undone by a debounced edit that was pending when it was made: the step
\* that delivers the pending edit removes no condition, brings none back
\* and leaves the AND/OR mode as it is.
C25_DeliveryKeepsImmediateChanges ==
    [][Delivery =>
          /\ ConditionIds(filterState') = ConditionIds(filterState)
          /\ filterState'.logicalOperator = filterState.logicalOperator]_vars

\* The attribute of a condition an edit sets: the field, the operator, the
\* value, or one end (min, max, from, to) of a range
AttrOf(c, attr) ==
    CASE attr = "field" -> Str(c.field)
      [] attr = "operator" -> Str(c.operator)
      [] attr = "value" -> c.value
      [] OTHER -> GetProp(c.value, attr)

\* A later edit of the same condition supersedes an earlier one when it
\* sets the same attribute, or one whose change resets it: the field resets
\* operator and value, the operator resets the value
Supersedes(later, earlier) ==
    /\ later.id = earlier.id
    /\ \/ later.attr = earlier.attr
       \/ later.attr = "field"
       \/ later.attr = "operator" /\ earlier.attr # "field"

\* The filter state holds the condition of the edit with the attribute as
\* the edit set it
Reflects(fs, edit) ==
    \E i \in DOMAIN fs.conditions :
        /\ fs.conditions[i].id = edit.id
        /\ AttrOf(fs.conditions[i], edit.attr) = AttrOf(edit.condition, edit.attr)

\* C26: every edit a row reported is reflected in the filter state once the
\* timer has fired, unless a later edit superseded it: the delivery of a
\* burst of edits holds every edit of the burst that no later one replaced.
C26_DeliveryReflectsEveryEdit ==
    [][Delivery =>
          \A i \in DOMAIN reported :
              (\A j \in (i + 1)..Len(reported) : ~Supersedes(reported[j], reported[i]))
                  => Reflects(filterState', reported[i])]_vars

\* A scalar: a string, a number or a boolean
IsScalar(v) == v.t \in {"string", "number", "boolean"}

\* An object with exactly the two properties, both of them scalars
IsPair(v, p, q) ==
    /\ v.t = "object"
    /\ DOMAIN v.f = {p, q}
    /\ IsScalar(v.f[p]) /\ IsScalar(v.f[q])

\* The payload shape of a (fieldType, operator) pair
HasPayloadShape(fieldType, operator, value) ==
    CASE operator = "between" /\ fieldType = "date" ->
            IsPair(value, "from", "to")
                /\ value.f["from"].t = "string" /\ value.f["to"].t = "string"
      [] operator = "between" /\ fieldType # "date" -> IsPair(value, "min", "max")
      [] operator # "between" /\ fieldType = "multiSelect" ->
            value.t = "array" /\ \A i \in DOMAIN value.a : IsScalar(value.a[i])
      [] operator # "between" /\ fieldType = "date" -> value.t = "string"
      [] OTHER -> IsScalar(value)

\* The condition agrees with the definition of its field
WellFormedCondition(c) ==
    /\ c.field \in FieldKeys
    /\ c.fieldType = FindFieldDef(c.field).type
    /\ SeqIncludes(FindFieldDef(c.field).operators, c.operator)
    /\ c.nestedKey = FindFieldDef(c.field).nestedKey
    /\ HasPayloadShape(c.fieldType, c.operator, c.value)

ExactUpdate(old, new, id, c) ==
    /\ new.logicalOperator = old.logicalOperator
    /\ Len(new.conditions) = Len(old.conditions)
    /\ \A i \in DOMAIN old.conditions :
          new.conditions[i] = IF old.conditions[i].id = id THEN c ELSE old.conditions[i]

\* The new state is the old one without the conditions with the id: the
\* others are all there, as they were and in their order
ExactRemoval(old, new, id) ==
    /\ new.logicalOperator = old.logicalOperator
    /\ IsSubsequence(new.conditions, old.conditions)
    /\ \A i \in DOMAIN new.conditions : new.conditions[i].id # id
    /\ Len(new.conditions) =
          Cardinality({i \in DOMAIN old.conditions : old.conditions[i].id # id})

\* C30: an edit or a removal touches only the condition with the given id.
\* The state handleUpdateCondition(id, c) hands to the debounce is the
\* rendered state with c at the position of the condition with that id, and
\* the state handleRemoveCondition(id) hands to onFiltersChange is the
\* rendered state without the conditions with that id; the other
\* conditions, their order and logicalOperator are unchanged.
C30_EditAndRemovalTouchOneCondition ==
    [][/\ Len(reported') = Len(reported) + 1 =>
            \E t \in timers' :
                /\ t.id = timeoutRef'
                /\ ExactUpdate(filterState, t.newFilterState,
                               reported'[Len(reported')].id,
                               reported'[Len(reported')].condition)
       /\ RemoveCondition =>
            \E i \in DOMAIN filterState.conditions :
                ExactRemoval(filterState, filterState', filterState.conditions[i].id)]_vars

\* The second of two rows has been edited: the pending state holds the
\* edited condition in the second place and the first row as it was
C30_Witness ==
    /\ mounted
    /\ Len(filterState.conditions) = 2
    /\ filterState.conditions[1].field # ""
    /\ reported # <<>>
    /\ reported[Len(reported)].id = filterState.conditions[2].id
    /\ \E t \in timers :
        /\ t.newFilterState.conditions[2] = reported[Len(reported)].condition
        /\ t.newFilterState.conditions[2] # filterState.conditions[2]
        /\ t.newFilterState.conditions[1] = filterState.conditions[1]

=============================================================================
